---------------------------- MODULE Spec2Model ----------------------------
(***************************************************************************)
(* A model of the MongoDataOps maintenance scripts: the batched,           *)
(* concurrent mutation pipeline every script repeats (chunk a cursor,      *)
(* submit one task per batch to a ThreadPoolExecutor, collect the futures, *)
(* update the progress bar, log the completion report) and the per-batch   *)
(* transforms of the ten pipeline scripts.                                 *)
(*                                                                         *)
(* Documents are abstracted to their identifiers.  A collection is the set *)
(* of identifiers it holds, plus (for the target) the number of documents  *)
(* that were inserted without an _id and received a store-assigned one.    *)
(***************************************************************************)
EXTENDS Integers, Sequences, FiniteSets, TLC

(***************************************************************************)
(* Bounds of the model.                                                    *)
(***************************************************************************)
MaxDocs == 3
MaxBatch == 2
MaxWorkers == 2
MaxLen == 4

Ids == 1..MaxDocs

(***************************************************************************)
(* Helpers on sequences.                                                   *)
(***************************************************************************)
Min(a, b) == IF a < b THEN a ELSE b

Range(s) == {s[i] : i \in 1..Len(s)}

RECURSIVE Concat(_)
Concat(ss) == IF ss = <<>> THEN <<>> ELSE Head(ss) \o Concat(Tail(ss))

RECURSIVE SeqSum(_)
SeqSum(s) == IF s = <<>> THEN 0 ELSE Head(s) + SeqSum(Tail(s))

\* The sequences over S of length at most n.
SeqsUpTo(S, n) == UNION {[1..k -> S] : k \in 0..n}

\* An identifier set in ascending order: what find() streams for a query.
RECURSIVE SortedSeq(_)
SortedSeq(S) ==
    IF S = {} THEN <<>>
    ELSE LET m == CHOOSE x \in S : \A y \in S : x <= y
         IN <<m>> \o SortedSeq(S \ {m})

\* Number of positions of s whose element satisfies membership in S.
CountIn(s, S) == Cardinality({i \in 1..Len(s) : s[i] \in S})

(***************************************************************************)
(* chunk_cursor: the generator every cursor-driven script defines.         *)
(*     batch = []                                                          *)
(*     for doc in cursor:                                                  *)
(*         batch.append(doc)                                               *)
(*         if len(batch) == batch_size: yield batch; batch = []            *)
(*     if batch: yield batch                                               *)
(* ChunkLoop carries the loop state: the rest of the cursor, the batch     *)
(* being filled and the batches yielded so far.                            *)
(***************************************************************************)
RECURSIVE ChunkLoopNoReset(_, _, _, _)
ChunkLoopNoReset(cur, b, batch, out) ==
    IF cur = <<>>
    THEN IF batch # <<>> THEN Append(out, batch) ELSE out
    ELSE LET nb == Append(batch, Head(cur))
         IN IF Len(nb) >= b
            THEN ChunkLoopNoReset(Tail(cur), b, nb, Append(out, nb))
            ELSE ChunkLoopNoReset(Tail(cur), b, nb, out)

RECURSIVE ChunkLoop(_, _, _, _)
ChunkLoop(cur, b, batch, out) ==
    IF cur = <<>>
    THEN IF batch # <<>> THEN Append(out, batch) ELSE out
    ELSE LET nb == Append(batch, Head(cur))
         IN IF Len(nb) = b
            THEN ChunkLoop(Tail(cur), b, <<>>, Append(out, nb))
            ELSE ChunkLoop(Tail(cur), b, nb, out)

\* The final "if batch:" test dropped: the last batch is yielded even when empty.
chunk_cursor_always_yield(cursor, batch_size) ==
    LET out == ChunkLoop(cursor, batch_size, <<>>, <<>>)
    IN IF Len(cursor) % batch_size = 0 THEN Append(out, <<>>) ELSE out

\* The "batch = []" reset dropped: a yielded batch keeps growing.
chunk_cursor_no_reset(cursor, batch_size) ==
    ChunkLoopNoReset(cursor, batch_size, <<>>, <<>>)

chunk_cursor(cursor, batch_size) == ChunkLoop(cursor, batch_size, <<>>, <<>>)

(***************************************************************************)
(* The slicing chunker of the scripts that hold the identifiers in a list: *)
(*     [ids[i:i + BATCH_SIZE] for i in range(0, total_docs, BATCH_SIZE)]   *)
(***************************************************************************)
SliceStarts(total, step) == {i \in 0..(total - 1) : i % step = 0}

slice_batches(ids, batch_size) ==
    LET starts == SortedSeq(SliceStarts(Len(ids), batch_size))
    IN [k \in 1..Len(starts) |->
            SubSeq(ids, starts[k] + 1, Min(starts[k] + batch_size, Len(ids)))]

(***************************************************************************)
(* State.                                                                  *)
(***************************************************************************)
VARIABLES
    job,        \* which script runs
    batchSize,  \* BATCH_SIZE
    maxWorkers, \* MAX_WORKERS
    moveMode,   \* MOVE_MODE (the two transfer scripts)
    keepId,     \* whether "_id" is listed in FIELDS_TO_KEEP (create_docs)
    reach,      \* the store: "unknown" until opened, then "up", "ctor_fails"
                \* (the client constructor raises) or "op_fails" (the
                \* constructor returns, every store operation raises)
    cursor,     \* the identifiers the job streams: the query's result set,
                \* or the lines of the identifier file
    source,     \* identifiers held by the source collection
    target,     \* identifiers held by the target collection
    anon,       \* target documents that were inserted without an _id
    refHit,     \* source documents whose FIELD_TO_COMPARE value is in the
                \* reference set loaded from the target (mark_duplicates)
    pc,         \* position of the dispatching (main) thread
    exc,        \* an exception is propagating out of the executor block
    tasks,      \* the futures, in submission order
    progress,   \* running total of the progress bar
    reported,   \* the completion report (the final success line) was logged
    jobErrors,  \* lines logged by the job-level error handlers
    malformed,  \* the identifier file held a line that is no identifier
    yielded,    \* batches produced by a chunker applied on its own
    run,        \* 1 for the first run of the script, 2 for a second run
    snap,       \* the target as the first run left it
    db,         \* the two collections at field level, with the write
                \* operations sent so far (the batch functions applied to
                \* whole documents)
    arg,        \* the arguments of a function applied on its own
    ret,        \* what that function returned
    conns       \* MongoDBConnection objects: how many were entered
                \* (__enter__) and how many were closed (__exit__)

vars == <<job, batchSize, maxWorkers, moveMode, keepId, reach, cursor, source,
          target, anon, refHit, pc, exc, tasks, progress, reported, jobErrors,
          malformed, yielded, run, snap, db, arg, ret, conns>>

\* The variables only the document-level and function-level models use,
\* and the connections, which only opening and leaving a scope change.
detail == <<db, arg, ret, conns>>

config == <<job, batchSize, maxWorkers, moveMode, keepId, refHit>>

(***************************************************************************)
(* The scripts.                                                            *)
(***************************************************************************)
CursorJobs == {"add_fields", "rename_fields", "remove_fields", "mark_duplicates",
               "transfer_documents", "create_docs", "update_from_source"}
SliceJobs == {"update_field", "copy_field_by_ids", "transfer_by_ids"}
IdListJobs == {"copy_field_by_ids", "transfer_by_ids"}
QueryJobs == CursorJobs \cup {"update_field"}
InsertMissingJobs == {"transfer_documents", "create_docs"}
TwoCollectionJobs == {"transfer_documents", "create_docs", "update_from_source",
                      "copy_field_by_ids", "transfer_by_ids"}
Jobs == CursorJobs \cup SliceJobs

\* The batches a job submits, from the identifiers it streams.
Batches(j, ids, b) ==
    IF j \in SliceJobs THEN slice_batches(ids, b) ELSE chunk_cursor(ids, b)

(***************************************************************************)
(* The store's answer to one request carrying the write operations ops     *)
(* (one per identifier), where the store rejects the operations on the     *)
(* identifiers in bad.  Unordered (ordered=False): every operation is      *)
(* attempted; ordered (the default of insert_many): the request stops at   *)
(* the first rejected operation.  Either way the call raises when an       *)
(* operation was rejected.                                                 *)
(***************************************************************************)
FirstBad(ops, bad) ==
    IF \E i \in 1..Len(ops) : ops[i] \in bad
    THEN CHOOSE i \in 1..Len(ops) :
            /\ ops[i] \in bad
            /\ \A k \in 1..(i - 1) : ops[k] \notin bad
    ELSE 0

\* One request per Python call; "applied" is the sequence of identifiers
\* whose operation the store applied, "rej" the number it rejected.
StoreWrite(ops, bad, ordered) ==
    LET fb == FirstBad(ops, bad)
    IN IF fb = 0
       THEN [applied |-> ops, rej |-> 0, raised |-> FALSE]
       ELSE IF ordered
            THEN [applied |-> SubSeq(ops, 1, fb - 1), rej |-> 1, raised |-> TRUE]
            ELSE [applied |-> SelectSeq(ops, LAMBDA x : x \notin bad),
                  rej |-> CountIn(ops, bad), raised |-> TRUE]

bulk_write(ops, bad) == StoreWrite(ops, bad, FALSE)

insert_many(docs, bad) == StoreWrite(docs, bad, TRUE)

(***************************************************************************)
(* What a batch task did: the state of its future, its return value, the   *)
(* write operations it produced (their identifiers), the size of the       *)
(* request it sent and what the store did with it, the lines it logged,    *)
(* and its effect on the collections.                                      *)
(***************************************************************************)
Outcome(st, result, ops, w, logged, failed, tgtAdd, srcDel, anonAdd) ==
    [st |-> st, result |-> result, ops |-> ops, att |-> Len(ops),
     rej |-> w.rej, applied |-> Len(w.applied), logged |-> logged,
     failed |-> failed, tgtAdd |-> tgtAdd, srcDel |-> srcDel,
     anonAdd |-> anonAdd]

NoWrite == [applied |-> <<>>, rej |-> 0, raised |-> FALSE]

\* The write call itself raised (no answer from the store): nothing applied.
CallFailed == [applied |-> <<>>, rej |-> 0, raised |-> TRUE]

\* A loop of single update_one calls inside one try (or none): the first
\* call that raises ends the loop, the calls before it were applied.
update_each(docs, bad) == StoreWrite(docs, bad, TRUE)

\* The task raised before it sent any write (its first store call failed).
Aborted(st, logged) ==
    Outcome(st, 0, <<>>, NoWrite, logged, TRUE, {}, {}, 0)

(***************************************************************************)
(* The batch transforms.  Each takes the batch and the store's faults      *)
(* during the task: f.whole (the task's first store call raises) and f.bad *)
(* (the identifiers whose write the store rejects).                        *)
(***************************************************************************)

\* add_fields.process_batch: one $replaceRoot per document, one unordered
\* bulk_write; returns len(bulk_ops), or 0 from the except branch.
add_process_batch(batch, f) ==
    LET w == IF f.whole THEN CallFailed ELSE bulk_write(batch, f.bad)
    IN Outcome("returned", IF w.raised THEN 0 ELSE Len(batch), batch, w,
                    IF w.raised THEN 1 ELSE 0, w.raised, {}, {}, 0)

\* update_field.process_batch: one $set per identifier; returns
\* len(batch_ids), or 0 from the except branch.
update_process_batch(batch_ids, f) ==
    LET w == IF f.whole THEN CallFailed ELSE bulk_write(batch_ids, f.bad)
    IN Outcome("returned", IF w.raised THEN 0 ELSE Len(batch_ids),
                    batch_ids, w, IF w.raised THEN 1 ELSE 0, w.raised, {}, {}, 0)

\* remove_fields.remove_fields: one $unset per document; returns
\* len(bulk_ops), or 0 from the except branch.
remove_fields(batch, f) ==
    LET w == IF f.whole THEN CallFailed ELSE bulk_write(batch, f.bad)
    IN Outcome("returned", IF w.raised THEN 0 ELSE Len(batch), batch, w,
                    IF w.raised THEN 1 ELSE 0, w.raised, {}, {}, 0)

\* rename_fields.rename_fields: one $replaceRoot per document; no return
\* value (None, modelled as 0); the except branch prints.
rename_fields(batch, f) ==
    LET w == IF f.whole THEN CallFailed ELSE bulk_write(batch, f.bad)
    IN Outcome("returned", 0, batch, w, IF w.raised THEN 1 ELSE 0,
               w.raised, {}, {}, 0)

\* mark_duplicates.process_duplicates: one update_one per document whose
\* comparison value is in the reference set, in batch order; there is no
\* try/except, so the first update that raises ends the task with the
\* exception stored in its future and nothing logged.
process_duplicates(batch, f, hit) ==
    LET dups == SelectSeq(batch, LAMBDA d : d \in hit)
        w == update_each(dups, f.bad)
        sent == IF w.raised THEN SubSeq(dups, 1, Len(w.applied) + 1) ELSE dups
    IN Outcome(IF w.raised THEN "raised" ELSE "returned", 0, sent, w, 0,
               w.raised, {}, {}, 0)

\* transfer_documents.process_batch_insert_missing: distinct() for the
\* identifiers already in the target, one InsertOne per other document in
\* an unordered bulk_write, then (MOVE_MODE) delete_many of the same
\* documents from the source; the except branch logs.
transfer_insert_missing(batch, f, tgt, move) ==
    LET new_documents == SelectSeq(batch, LAMBDA d : d \notin tgt)
        w == bulk_write(new_documents, f.bad)
    IN IF f.whole THEN Aborted("returned", 1)
       ELSE Outcome("returned", 0, new_documents, w,
                    IF w.raised THEN 1 ELSE 0, w.raised, Range(w.applied),
                    IF move /\ ~w.raised THEN Range(new_documents) ELSE {}, 0)

\* create_docs.process_batch_insert_missing: distinct() as above, then
\* insert_many (ordered, the default) of filter_document_fields(doc) for
\* every other document.  filter_document_fields keeps only the keys of
\* FIELDS_TO_KEEP, so the inserted document carries the source's _id only
\* when "_id" is one of them (keep); otherwise the store assigns one.
create_insert_missing(batch, f, tgt, keep) ==
    LET new_documents == SelectSeq(batch, LAMBDA d : d \notin tgt)
        w == insert_many(new_documents, f.bad)
    IN IF f.whole THEN Aborted("returned", 1)
       ELSE Outcome("returned", 0, new_documents, w,
                    IF w.raised THEN 1 ELSE 0, w.raised,
                    IF keep THEN Range(w.applied) ELSE {}, {},
                    IF keep THEN 0 ELSE Len(w.applied))

\* update_fields_from_source.process_batch_update_matching: find() for the
\* identifiers already in the target, then one update_one per matching
\* document in batch order inside one try: the first that raises ends the
\* loop; the except branch logs.
process_batch_update_matching(batch, f, tgt) ==
    LET matching_documents == SelectSeq(batch, LAMBDA d : d \in tgt)
        w == update_each(matching_documents, f.bad)
        sent == IF w.raised
                THEN SubSeq(matching_documents, 1, Len(w.applied) + 1)
                ELSE matching_documents
    IN IF f.whole THEN Aborted("returned", 1)
       ELSE Outcome("returned", 0, sent, w, IF w.raised THEN 1 ELSE 0,
                    w.raised, {}, {}, 0)

\* copy_field_by_ids.copy_field_in_parallel: per identifier, inside its own
\* try: find_one in the source, and when the document carries FIELD_TO_COPY
\* an update_one on the target; updated_count counts the updates that
\* modified a document.  src stands for the source documents that carry
\* the field, tgt for the target documents the update modifies.
copy_field_in_parallel(batch, f, src, tgt) ==
    LET ok == SelectSeq(batch, LAMBDA d : d \notin f.bad)
        sent == SelectSeq(ok, LAMBDA d : d \in src)
        done == SelectSeq(sent, LAMBDA d : d \in tgt)
    IN Outcome("returned", Len(done), sent,
               [applied |-> done, rej |-> 0, raised |-> FALSE],
               CountIn(batch, f.bad), FALSE, {}, {}, 0)

\* transfer_documents_by_ids.move_documents_in_parallel: per identifier,
\* inside its own try: find_one in the source, insert_one into the target
\* (DuplicateKeyError when the identifier is already there), then
\* (MOVE_MODE) delete_one from the source, then moved_count += 1.
\* acc carries moved_count, the logged errors, the inserts sent, and the
\* two collections as the loop changes them.
RECURSIVE MoveLoop(_, _, _, _)
MoveLoop(batch, f, move, acc) ==
    IF batch = <<>> THEN acc
    ELSE LET id == Head(batch)
             found == id \in acc.src
             raises == id \in f.bad \/ (found /\ id \in acc.tgt)
             sends == found /\ id \notin f.bad
             moved == found /\ ~raises
         IN MoveLoop(Tail(batch), f, move,
               [moved |-> acc.moved + (IF moved THEN 1 ELSE 0),
                logged |-> acc.logged + (IF raises THEN 1 ELSE 0),
                sent |-> IF sends THEN Append(acc.sent, id) ELSE acc.sent,
                src |-> IF moved /\ move THEN acc.src \ {id} ELSE acc.src,
                tgt |-> IF moved THEN acc.tgt \cup {id} ELSE acc.tgt])

move_documents_in_parallel(batch, f, src, tgt, move) ==
    LET r == MoveLoop(batch, f, move,
                      [moved |-> 0, logged |-> 0, sent |-> <<>>,
                       src |-> src, tgt |-> tgt])
    IN [st |-> "returned", result |-> r.moved, ops |-> r.sent,
        att |-> Len(r.sent), rej |-> Len(r.sent) - r.moved,
        applied |-> r.moved, logged |-> r.logged, failed |-> FALSE,
        tgtAdd |-> r.tgt \ tgt, srcDel |-> src \ r.src, anonAdd |-> 0]

\* The function a job submits for each batch.
RunBatch(j, batch, f) ==
    CASE j = "add_fields" -> add_process_batch(batch, f)
      [] j = "update_field" -> update_process_batch(batch, f)
      [] j = "remove_fields" -> remove_fields(batch, f)
      [] j = "rename_fields" -> rename_fields(batch, f)
      [] j = "mark_duplicates" -> process_duplicates(batch, f, refHit)
      [] j = "transfer_documents" ->
            transfer_insert_missing(batch, f, target, moveMode)
      [] j = "create_docs" -> create_insert_missing(batch, f, target, keepId)
      [] j = "update_from_source" ->
            process_batch_update_matching(batch, f, target)
      [] j = "copy_field_by_ids" ->
            copy_field_in_parallel(batch, f, source, target)
      [] j = "transfer_by_ids" ->
            move_documents_in_parallel(batch, f, source, target, moveMode)

(***************************************************************************)
(* The futures.                                                            *)
(***************************************************************************)
Queued(batch) ==
    [batch |-> batch, collected |-> FALSE, st |-> "queued", result |-> 0,
     ops |-> <<>>, att |-> 0, rej |-> 0, applied |-> 0, logged |-> 0,
     failed |-> FALSE, tgtAdd |-> {}, srcDel |-> {}, anonAdd |-> 0]

\* Future.done(), with a future counted as done from the moment it runs.
FinishedOnceStarted(t) == t.st # "queued"

\* Future.done(): the call returned or raised.
Finished(t) == t.st \in {"returned", "raised"}

Running == {i \in 1..Len(tasks) : tasks[i].st = "running"}

\* An executor left without waiting: shutdown(wait=False).
LeftWithoutWaiting == TRUE

AllFinished == \A i \in 1..Len(tasks) : Finished(tasks[i])

AllCollected == \A i \in 1..Len(tasks) : tasks[i].collected

\* Jobs whose task starts with a store call of its own (the bulk write, or
\* the lookup of the identifiers already in the target) that can fail as a
\* whole.
WholeCallJobs == Jobs \ {"mark_duplicates", "copy_field_by_ids", "transfer_by_ids"}

\* The store's faults a task can meet.  With the store unreachable every
\* call raises.
Faults(j, batch) ==
    IF reach = "op_fails"
    THEN {[bad |-> Range(batch), whole |-> TRUE]}
    ELSE {[bad |-> B, whole |-> FALSE] : B \in SUBSET Range(batch)}
         \cup (IF j \in WholeCallJobs THEN {[bad |-> {}, whole |-> TRUE]} ELSE {})

(***************************************************************************)
(* MongoDBConnection as a context manager.  A script builds a connection   *)
(* in a with statement: __init__ (which may raise, and then nothing was    *)
(* entered), __enter__, the body, and __exit__ on every way out of the     *)
(* body.  __exit__ closes the client and returns None, so an exception     *)
(* leaving the body goes on to the enclosing handler.                      *)
(***************************************************************************)
NoConns == [opened |-> 0, closed |-> 0]

\* with MongoDBConnection(...) as conn: n connections entered.
Entered(c, n) == [c EXCEPT !.opened = @ + n]

\* An __exit__ that closes only on a normal exit.
MongoDBConnection_exit_if_clean(c, raised) ==
    [conns |-> IF raised THEN c ELSE [c EXCEPT !.closed = @ + 1],
     suppress |-> FALSE]

\* MongoDBConnection.__exit__(exc_type, exc_val, exc_tb):
\*     self.client.close()
MongoDBConnection_exit(c, raised) ==
    [conns |-> [c EXCEPT !.closed = @ + 1], suppress |-> FALSE]

\* Leaving the with blocks of every connection still open, innermost
\* first; an __exit__ that returns a true value ends the exception.
RECURSIVE LeaveScopes(_, _)
LeaveScopes(c, raised) ==
    IF c.closed >= c.opened THEN [conns |-> c, raised |-> raised]
    ELSE LET x == MongoDBConnection_exit(c, raised)
         IN IF x.conns.closed = c.closed
            THEN [conns |-> x.conns, raised |-> raised /\ ~x.suppress]
            ELSE LeaveScopes(x.conns, raised /\ ~x.suppress)

\* Connections a script builds: one, or a source and a target.
NumConns(j) ==
    IF j \in TwoCollectionJobs \cup {"mark_duplicates"} THEN 2 ELSE 1

(***************************************************************************)
(* Initial states: a script, its configuration and the collections.        *)
(***************************************************************************)
\* The identifier-file scripts: the file names identifiers out of FileIds,
\* in any order and with repeats; identifier 1 is in the source, 2 may be
\* missing from it, and 1 may already be in the target.  (The other
\* collections are these with the two identifiers exchanged.)
FileIds == {1, 2}

InitPipeline ==
    /\ batchSize \in 1..MaxBatch
    /\ maxWorkers \in 1..MaxWorkers
    /\ moveMode \in (IF job \in {"transfer_documents", "transfer_by_ids"}
                     THEN BOOLEAN ELSE {FALSE})
    /\ keepId \in (IF job = "create_docs" THEN BOOLEAN ELSE {TRUE})
    /\ IF job \in IdListJobs
       THEN /\ cursor \in SeqsUpTo(FileIds, MaxDocs)
            /\ source \in {{1}, FileIds}
            /\ target \in {{}, {1}}
       ELSE /\ cursor = <<>>
            /\ \E n \in 0..MaxDocs : source = 1..n
            /\ target \in (IF job \in TwoCollectionJobs
                           THEN SUBSET source ELSE {{}})
    /\ refHit \in (IF job = "mark_duplicates" THEN SUBSET source ELSE {{}})
    /\ anon = 0
    /\ reach = "unknown"
    /\ pc = "pending"
    /\ exc = FALSE
    /\ tasks = <<>>
    /\ progress = 0
    /\ reported = FALSE
    /\ jobErrors = 0
    /\ malformed = FALSE
    /\ yielded = <<>>
    /\ run = 1
    /\ snap = [target |-> {}, anon |-> 0, clean |-> FALSE]
    /\ conns = NoConns

\* The pipeline models carry no document contents and no function call.
NoDetail ==
    /\ db = <<>>
    /\ arg = <<>>
    /\ ret = <<>>

Init ==
    /\ job \in Jobs
    /\ InitPipeline
    /\ NoDetail

(***************************************************************************)
(* The dispatching thread.                                                 *)
(***************************************************************************)

\* The job-level "except Exception" handler: one error line, no report.
JobFails ==
    /\ pc' = "failed"
    /\ jobErrors' = jobErrors + 1
    /\ UNCHANGED <<reported, exc>>

\* read_ids_from_file: ObjectId(line) raises on a line that is no
\* identifier, before any connection is opened.
ReadIds ==
    /\ pc = "pending"
    /\ job \in IdListJobs
    /\ \E ok \in BOOLEAN :
          /\ malformed' = ~ok
          /\ IF ok
             THEN pc' = "opening" /\ UNCHANGED <<jobErrors, reported, exc>>
             ELSE JobFails
    /\ UNCHANGED <<config, detail, reach, cursor, source, target, anon, tasks,
                   progress, yielded, run, snap>>

\* From the MongoDBConnection constructor(s) to the last store call the
\* main thread makes before it submits: count_documents(QUERY) in the
\* cursor-driven scripts, load_target_field_values() in mark_duplicates,
\* the find() that update_field turns into a list (inside update_field's
\* own try/except), none in the identifier-file scripts.
Open ==
    /\ job \in Jobs
    /\ IF job \in QueryJobs THEN pc = "pending" ELSE pc = "opening"
    /\ \E r \in {"up", "ctor_fails", "op_fails"} :
          /\ reach' = r
          /\ CASE r = "ctor_fails" ->
                     \* the k-th constructor raises; the connections
                     \* entered before it are left on the way out
                     /\ \E k \in 1..NumConns(job) :
                           conns' = LeaveScopes(Entered(conns, k - 1), TRUE).conns
                     /\ JobFails
                     /\ UNCHANGED cursor
               [] r = "op_fails" /\ job \in IdListJobs ->
                     /\ conns' = Entered(conns, 2)
                     /\ pc' = IF Batches(job, cursor, batchSize) = <<>>
                              THEN "collecting" ELSE "submitting"
                     /\ UNCHANGED <<cursor, jobErrors, reported, exc>>
               [] r = "op_fails" /\ job = "update_field" ->
                     \* caught inside update_field(): the with block is
                     \* left normally
                     /\ conns' = LeaveScopes(Entered(conns, 1), FALSE).conns
                     /\ jobErrors' = jobErrors + 1
                     /\ reported' = TRUE
                     /\ pc' = "completed"
                     /\ UNCHANGED <<cursor, exc>>
               [] r = "op_fails" /\ job \in CursorJobs ->
                     \* the first store call, made with one connection
                     \* entered, raises out of its with block
                     /\ LET left == LeaveScopes(Entered(conns, 1), TRUE)
                        IN /\ conns' = left.conns
                           /\ IF left.raised
                              THEN JobFails
                              ELSE /\ pc' = "completed"
                                   /\ reported' = TRUE
                                   /\ UNCHANGED <<jobErrors, exc>>
                     /\ UNCHANGED cursor
               [] r = "up" ->
                     \* mark_duplicates has by now left the with block of
                     \* load_target_field_values()
                     /\ conns' = IF job = "mark_duplicates"
                                 THEN Entered(LeaveScopes(Entered(conns, 1),
                                                          FALSE).conns, 1)
                                 ELSE Entered(conns, NumConns(job))
                     /\ cursor' = IF job \in QueryJobs
                                  THEN SortedSeq(source) ELSE cursor
                     /\ pc' = IF Batches(job, cursor', batchSize) = <<>>
                              THEN "collecting" ELSE "submitting"
                     /\ UNCHANGED <<jobErrors, reported, exc>>
    /\ UNCHANGED <<config, db, arg, ret, source, target, anon, tasks, progress,
                   malformed, yielded, run, snap>>

\* executor.submit(...) for the next batch.
Submit ==
    /\ pc = "submitting"
    /\ LET bs == Batches(job, cursor, batchSize)
       IN /\ Len(tasks) < Len(bs)
          /\ tasks' = Append(tasks, Queued(bs[Len(tasks) + 1]))
          /\ pc' = IF Len(tasks) + 1 = Len(bs) THEN "collecting" ELSE "submitting"
    /\ UNCHANGED <<config, detail, reach, cursor, source, target, anon, exc, progress,
                   reported, jobErrors, malformed, yielded, run, snap>>

(***************************************************************************)
(* The worker threads of the ThreadPoolExecutor.                           *)
(***************************************************************************)

\* A pool that starts a thread for every task it is given.
WorkerIdleAlways(running, max_workers) == TRUE

\* ThreadPoolExecutor(max_workers=MAX_WORKERS): the pool holds at most
\* max_workers threads, and a thread runs one work item to its end before
\* it takes the next from the queue.
WorkerIdle(running, max_workers) == Cardinality(running) < max_workers

\* An idle worker takes the oldest queued task.
StartTask ==
    /\ WorkerIdle(Running, maxWorkers)
    /\ \E i \in 1..Len(tasks) :
          /\ tasks[i].st = "queued"
          /\ \A k \in 1..(i - 1) : tasks[k].st # "queued"
          /\ tasks' = [tasks EXCEPT ![i].st = "running"]
    /\ UNCHANGED <<config, detail, reach, cursor, source, target, anon, pc, exc,
                   progress, reported, jobErrors, malformed, yielded, run, snap>>

\* A batch function that updates the progress bar with its own count.
WorkerUpdateOwnCount(j, o) == o.result

\* What a batch function adds to the progress bar: no batch function is
\* handed the bar (process_batch(batch, collection),
\* copy_field_in_parallel(batch, source_conn, target_conn), ...), so
\* nothing.
WorkerUpdate(j, o) == 0

\* A worker runs its batch function to the end.
FinishTask ==
    \E i \in Running :
       \E f \in Faults(job, tasks[i].batch) :
          LET o == RunBatch(job, tasks[i].batch, f)
          IN /\ tasks' = [tasks EXCEPT ![i] =
                             o @@ [batch |-> tasks[i].batch, collected |-> FALSE]]
             /\ target' = target \cup o.tgtAdd
             /\ source' = source \ o.srcDel
             /\ anon' = anon + o.anonAdd
             /\ progress' = progress + WorkerUpdate(job, o)
             /\ UNCHANGED <<config, detail, reach, cursor, pc, exc, reported,
                            jobErrors, malformed, yielded, run, snap>>

(***************************************************************************)
(* Collecting the futures.                                                 *)
(***************************************************************************)

\* What the dispatching thread adds to the progress bar for one future.
\*   add_fields, update_field:        pbar.update(future.result())
\*   rename, remove, mark_duplicates: pbar.update(BATCH_SIZE)
\*   copy_field_by_ids:               if updated_count > 0: pbar.update(...)
\*   transfer_documents_by_ids:       pbar.update(moved_count)
\*   transfer_documents:              pbar.update(batch_len)
Delta(j, t) ==
    CASE j \in {"add_fields", "update_field", "transfer_by_ids"} -> t.result
      [] j \in {"rename_fields", "remove_fields", "mark_duplicates"} -> batchSize
      [] j = "copy_field_by_ids" -> IF t.result > 0 THEN t.result ELSE 0
      [] j = "transfer_documents" -> Len(t.batch)
      [] OTHER -> 0

AsCompletedJobs == {"add_fields", "rename_fields", "remove_fields",
                    "mark_duplicates", "update_field", "copy_field_by_ids",
                    "transfer_by_ids"}

\* for future in as_completed(futures): ... -- any future that is done.
CollectCompleted ==
    /\ pc = "collecting"
    /\ job \in AsCompletedJobs
    /\ \E i \in 1..Len(tasks) :
          /\ ~tasks[i].collected
          /\ Finished(tasks[i])
          /\ tasks' = [tasks EXCEPT ![i].collected = TRUE]
          /\ progress' = progress + Delta(job, tasks[i])
    /\ UNCHANGED <<config, detail, reach, cursor, source, target, anon, pc, exc,
                   reported, jobErrors, malformed, yielded, run, snap>>

\* transfer_documents: for future, batch_len in futures: future.result()
\* -- in submission order, blocking on each.
CollectInOrder ==
    /\ pc = "collecting"
    /\ job = "transfer_documents"
    /\ \E i \in 1..Len(tasks) :
          /\ ~tasks[i].collected
          /\ \A k \in 1..(i - 1) : tasks[k].collected
          /\ Finished(tasks[i])
          /\ tasks' = [tasks EXCEPT ![i].collected = TRUE]
          /\ progress' = progress + Delta(job, tasks[i])
    /\ UNCHANGED <<config, detail, reach, cursor, source, target, anon, pc, exc,
                   reported, jobErrors, malformed, yielded, run, snap>>

\* create_docs, update_fields_from_source: "for future, batch_len in
\* futures" over a list of bare futures: unpacking the first one raises
\* TypeError outside the loop's try, and the exception leaves the executor
\* block.
CollectUnpack ==
    /\ pc = "collecting"
    /\ job \in {"create_docs", "update_from_source"}
    /\ tasks # <<>>
    /\ exc' = TRUE
    /\ pc' = "exiting"
    /\ UNCHANGED <<config, detail, reach, cursor, source, target, anon, tasks, progress,
                   reported, jobErrors, malformed, yielded, run, snap>>

\* The collecting loop ends: every future was taken (or there was none).
LeaveLoop ==
    /\ pc = "collecting"
    /\ job \in {"create_docs", "update_from_source"} => tasks = <<>>
    /\ AllCollected
    /\ pc' = "exiting"
    /\ UNCHANGED <<config, detail, reach, cursor, source, target, anon, exc, tasks,
                   progress, reported, jobErrors, malformed, yielded, run, snap>>

\* ThreadPoolExecutor.__exit__ (shutdown(wait=True)), then the connections
\* close, then either the completion report or, with an exception
\* propagating, the job-level handler.
ExecutorExit ==
    /\ pc = "exiting"
    /\ AllFinished
    /\ LET left == LeaveScopes(conns, exc)
       IN /\ conns' = left.conns
          /\ IF left.raised
             THEN /\ pc' = "failed"
                  /\ jobErrors' = jobErrors + 1
                  /\ UNCHANGED reported
             ELSE /\ pc' = "completed"
                  /\ reported' = TRUE
                  /\ UNCHANGED jobErrors
    /\ UNCHANGED <<config, db, arg, ret, reach, cursor, source, target, anon,
                   exc, tasks, progress, malformed, yielded, run, snap>>

Next ==
    \/ ReadIds
    \/ Open
    \/ Submit
    \/ StartTask
    \/ FinishTask
    \/ CollectCompleted
    \/ CollectInOrder
    \/ CollectUnpack
    \/ LeaveLoop
    \/ ExecutorExit

Spec == Init /\ [][Next]_vars

(***************************************************************************)
(* The worker pool with its threads scheduled, in the two scripts that     *)
(* submit one task per batch and collect with as_completed over a single   *)
(* collection: the dispatching thread and the pool's workers keep running, *)
(* and every store call returns or raises within its socket timeout.       *)
(***************************************************************************)
PoolJobs == {"add_fields", "update_field"}

InitPool ==
    /\ job \in PoolJobs
    /\ InitPipeline
    /\ NoDetail

NextPool ==
    \/ Open
    \/ Submit
    \/ StartTask
    \/ FinishTask
    \/ CollectCompleted
    \/ LeaveLoop
    \/ ExecutorExit

SpecPool == InitPool /\ [][NextPool]_vars /\ WF_vars(NextPool)

(***************************************************************************)
(* A second run of an insert-missing script on the collections the first   *)
(* run left.                                                               *)
(***************************************************************************)
Terminal == pc \in {"completed", "failed"}

NoTaskFailed == \A i \in 1..Len(tasks) : ~tasks[i].failed /\ tasks[i].logged = 0

Rerun ==
    /\ Terminal
    /\ run = 1
    /\ run' = 2
    /\ snap' = [target |-> target, anon |-> anon,
                clean |-> reach = "up" /\ NoTaskFailed]
    /\ pc' = "pending"
    /\ reach' = "unknown"
    /\ cursor' = <<>>
    /\ tasks' = <<>>
    /\ progress' = 0
    /\ reported' = FALSE
    /\ jobErrors' = 0
    /\ exc' = FALSE
    /\ conns' = NoConns
    /\ UNCHANGED <<config, db, arg, ret, source, target, anon, malformed,
                   yielded>>

InitRerun ==
    /\ job \in InsertMissingJobs
    /\ InitPipeline
    /\ NoDetail

NextRerun ==
    \/ Open
    \/ Submit
    \/ StartTask
    \/ FinishTask
    \/ CollectInOrder
    \/ CollectUnpack
    \/ LeaveLoop
    \/ ExecutorExit
    \/ Rerun

SpecRerun == InitRerun /\ [][NextRerun]_vars

(***************************************************************************)
(* The chunkers applied on their own, to every input within the bounds.    *)
(***************************************************************************)
InitChunk ==
    /\ job = "none"
    /\ cursor \in SeqsUpTo(Ids, MaxLen)
    /\ batchSize \in 1..MaxBatch
    /\ pc = "input"
    /\ maxWorkers = 1
    /\ moveMode = FALSE
    /\ keepId = TRUE
    /\ reach = "unknown"
    /\ source = {}
    /\ target = {}
    /\ anon = 0
    /\ refHit = {}
    /\ exc = FALSE
    /\ tasks = <<>>
    /\ progress = 0
    /\ reported = FALSE
    /\ jobErrors = 0
    /\ malformed = FALSE
    /\ yielded = <<>>
    /\ run = 1
    /\ snap = [target |-> {}, anon |-> 0, clean |-> FALSE]
    /\ conns = NoConns
    /\ NoDetail

ApplyChunkCursor ==
    /\ pc = "input"
    /\ yielded' = chunk_cursor(cursor, batchSize)
    /\ pc' = "chunked"
    /\ UNCHANGED <<config, detail, reach, cursor, source, target, anon, exc, tasks,
                   progress, reported, jobErrors, malformed, run, snap>>

ApplySliceBatches ==
    /\ pc = "input"
    /\ yielded' = slice_batches(cursor, batchSize)
    /\ pc' = "sliced"
    /\ UNCHANGED <<config, detail, reach, cursor, source, target, anon, exc, tasks,
                   progress, reported, jobErrors, malformed, run, snap>>

NextChunk ==
    \/ ApplyChunkCursor
    \/ ApplySliceBatches

SpecChunk == InitChunk /\ [][NextChunk]_vars

(***************************************************************************)
(* Documents at field level.  A document is a function from its keys to    *)
(* their values and always carries "_id"; a collection is a function from  *)
(* the identifiers it holds to its documents.                              *)
(***************************************************************************)
MaxStored == 2

\* The documents whose keys are some of DOMAIN fv, key k valued in fv[k].
DocsWith(fv) ==
    UNION {{d \in [S -> UNION {fv[k] : k \in S}] : \A k \in S : d[k] \in fv[k]} :
             S \in SUBSET DOMAIN fv}

\* The collections holding one document of shapes per identifier of a set
\* of idsets.
Collections(idsets, shapes) ==
    UNION {{[i \in I |-> c[i] @@ ("_id" :> i)] : c \in [I -> shapes]} :
             I \in idsets}

\* find(): the documents of a collection as a cursor streams them.
find(coll) == LET ids == SortedSeq(DOMAIN coll)
              IN [k \in 1..Len(ids) |-> coll[ids[k]]]

\* A projection {"_id": 1, <keys>: 1} of a document.
Project(doc, keys) == [k \in DOMAIN doc \cap (keys \cup {"_id"}) |-> doc[k]]

\* The identifiers of a list of documents: [doc["_id"] for doc in batch].
IdsOf(docs) == [k \in 1..Len(docs) |-> docs[k]["_id"]]

\* {"$set": fields} applied to a document.
SetFields(doc, fields) ==
    [k \in DOMAIN doc \cup DOMAIN fields |->
        IF k \in DOMAIN fields THEN fields[k] ELSE doc[k]]

\* collection.update_one({"_id": id}, {"$set": fields}): no upsert, so an
\* identifier the collection does not hold changes nothing.
update_one(coll, id, fields) ==
    IF id \in DOMAIN coll
    THEN [coll EXCEPT ![id] = SetFields(@, fields)]
    ELSE coll

\* One entry of the log of write operations sent to the store.
WriteOp(to, op, key, doc) == [to |-> to, op |-> op, key |-> key, doc |-> doc]

(***************************************************************************)
(* mark_duplicates_by_field at document level.                             *)
(***************************************************************************)
FIELD_TO_COMPARE == "f"

\* load_target_field_values: the values of FIELD_TO_COMPARE over the target
\* documents that carry it, gathered batch by batch into a set.
RECURSIVE LoadValues(_, _, _, _)
LoadValues(cur, b, batch, target_values) ==
    IF cur = <<>>
    THEN IF batch # <<>> THEN target_values \cup Range(batch) ELSE target_values
    ELSE LET doc == Head(cur)
             nb == IF FIELD_TO_COMPARE \in DOMAIN doc
                   THEN Append(batch, doc[FIELD_TO_COMPARE]) ELSE batch
         IN IF Len(nb) >= b
            THEN LoadValues(Tail(cur), b, <<>>, target_values \cup Range(nb))
            ELSE LoadValues(Tail(cur), b, nb, target_values)

load_target_field_values(tgt, b) ==
    LoadValues([k \in 1..Len(find(tgt)) |->
                   Project(find(tgt)[k], {FIELD_TO_COMPARE})], b, <<>>, {})

\* The test dropped to "FIELD_TO_COMPARE in doc".
is_marked_if_present(doc, target_values) == FIELD_TO_COMPARE \in DOMAIN doc

\* process_duplicates' test:
\*   FIELD_TO_COMPARE in doc and doc[FIELD_TO_COMPARE] in target_values
is_marked(doc, target_values) ==
    /\ FIELD_TO_COMPARE \in DOMAIN doc
    /\ doc[FIELD_TO_COMPARE] \in target_values

\* The store applying a list of write operations to a collection.
RECURSIVE ApplyOps(_, _)
ApplyOps(coll, ops) ==
    IF ops = <<>> THEN coll
    ELSE ApplyOps(update_one(coll, Head(ops).key, Head(ops).doc), Tail(ops))

\* process_duplicates on whole documents: one update_one with
\* {"$set": {"duplicated": True}} per document that passes the test, in
\* batch order; the first update that raises ends the task.
process_duplicates_docs(batch, f, target_values, d) ==
    LET dups == SelectSeq(batch, LAMBDA doc : is_marked(doc, target_values))
        ops == [k \in 1..Len(dups) |->
                   WriteOp("source", "update_one", dups[k]["_id"],
                           ("duplicated" :> TRUE))]
        w == update_each(IdsOf(dups), f.bad)
    IN [d EXCEPT
          !.src = ApplyOps(@, SubSeq(ops, 1, Len(w.applied))),
          !.log = @ \o (IF w.raised THEN SubSeq(ops, 1, Len(w.applied) + 1)
                        ELSE ops)]

(***************************************************************************)
(* update_fields_from_source at document level.                            *)
(***************************************************************************)

\* A filter that copies the whole source document.
filter_all_fields(doc, fields) == doc

\* filter_document_fields:
\*   {key: doc[key] for key in FIELDS_TO_COPY if key in doc}
filter_document_fields(doc, fields) ==
    [key \in fields \cap DOMAIN doc |-> doc[key]]

\* collection.find({"_id": {"$in": ids}}, {"_id": 1}) gathered into a set.
existing_ids_found(tgt, ids) == Range(ids) \cap DOMAIN tgt

\* process_batch_update_matching on whole documents: one update_one with
\* {"$set": filter_document_fields(doc)} per document of the batch whose
\* identifier the target holds, in batch order inside one try; the first
\* update that raises ends the loop.
process_batch_update_matching_docs(batch, f, fields, d) ==
    LET existing_ids == existing_ids_found(d.tgt, IdsOf(batch))
        matching_documents ==
            SelectSeq(batch, LAMBDA doc : doc["_id"] \in existing_ids)
        ops == [k \in 1..Len(matching_documents) |->
                   WriteOp("target", "update_one", matching_documents[k]["_id"],
                           filter_document_fields(matching_documents[k], fields))]
        w == update_each(IdsOf(matching_documents), f.bad)
    IN IF f.whole THEN d
       ELSE [d EXCEPT
               !.tgt = ApplyOps(@, SubSeq(ops, 1, Len(w.applied))),
               !.log = @ \o (IF w.raised
                             THEN SubSeq(ops, 1, Len(w.applied) + 1)
                             ELSE ops)]

(***************************************************************************)
(* The insert-missing batch functions of transfer_documents and            *)
(* create_docs_with_selected_fields at document level.                     *)
(***************************************************************************)

\* A lookup that finds no identifier.
no_existing_ids(tgt, ids) == {}

\* set(target_conn.collection.distinct("_id", {"_id": {"$in": ids}}))
existing_ids_distinct(tgt, ids) == Range(ids) \cap DOMAIN tgt

\* The identifier the store gives a document inserted without "_id": one
\* no document carries yet.
FreshId(coll) == MaxStored + 1 + Cardinality({i \in DOMAIN coll : i > MaxStored})

\* The store applying a request of inserts.  An insert is rejected when the
\* store fails on it (bad) or when the collection already holds its
\* identifier (duplicate key); an ordered request stops at the first
\* rejection, an unordered one goes on.  Either way the call then raises.
RECURSIVE InsertOps(_, _, _, _)
InsertOps(coll, ops, bad, ordered) ==
    IF ops = <<>> THEN [coll |-> coll, raised |-> FALSE]
    ELSE LET doc == Head(ops).doc
             id == IF "_id" \in DOMAIN doc THEN doc["_id"] ELSE FreshId(coll)
             rejected == Head(ops).key \in bad \/ id \in DOMAIN coll
         IN IF rejected
            THEN [coll |-> IF ordered THEN coll
                           ELSE InsertOps(coll, Tail(ops), bad, ordered).coll,
                  raised |-> TRUE]
            ELSE InsertOps(coll @@ (id :> (doc @@ ("_id" :> id))),
                           Tail(ops), bad, ordered)

\* delete_many({"_id": {"$in": ids}}).
delete_many(coll, ids) == [i \in DOMAIN coll \ ids |-> coll[i]]

\* transfer_documents.process_batch_insert_missing on whole documents:
\* one InsertOne per document whose identifier the lookup did not return,
\* in one unordered bulk_write; then, with MOVE_MODE, delete_many of the
\* same documents from the source.  A bulk_write that raises skips the
\* delete.  An operation's key is the identifier of the source document
\* it was built for.
transfer_insert_missing_docs(batch, f, move, d) ==
    LET ids_batch == IdsOf(batch)
        existing_ids == existing_ids_distinct(d.tgt, ids_batch)
        new_documents ==
            SelectSeq(batch, LAMBDA doc : doc["_id"] \notin existing_ids)
        bulk_inserts == [k \in 1..Len(new_documents) |->
                            WriteOp("target", "insert", new_documents[k]["_id"],
                                    new_documents[k])]
        deletes == [k \in 1..Len(new_documents) |->
                       WriteOp("source", "delete", new_documents[k]["_id"],
                               new_documents[k])]
        w == InsertOps(d.tgt, bulk_inserts, f.bad, FALSE)
        moved == move /\ ~w.raised
    IN IF f.whole \/ new_documents = <<>> THEN d
       ELSE [d EXCEPT
               !.tgt = w.coll,
               !.src = IF moved THEN delete_many(@, Range(IdsOf(new_documents)))
                       ELSE @,
               !.log = @ \o bulk_inserts \o (IF moved THEN deletes ELSE <<>>)]

\* create_docs.filter_document_fields:
\*   {key: doc[key] for key in FIELDS_TO_KEEP if key in doc}
keep_document_fields(doc, fields) ==
    [key \in fields \cap DOMAIN doc |-> doc[key]]

\* create_docs.process_batch_insert_missing on whole documents: the
\* filtered copy of every document whose identifier the lookup did not
\* return, in one insert_many (ordered).
create_insert_missing_docs(batch, f, fields, d) ==
    LET existing_ids == existing_ids_distinct(d.tgt, IdsOf(batch))
        fresh == SelectSeq(batch, LAMBDA doc : doc["_id"] \notin existing_ids)
        new_documents == [k \in 1..Len(fresh) |->
                             WriteOp("target", "insert", fresh[k]["_id"],
                                     keep_document_fields(fresh[k], fields))]
        w == InsertOps(d.tgt, new_documents, f.bad, TRUE)
    IN IF f.whole \/ new_documents = <<>> THEN d
       ELSE [d EXCEPT !.tgt = w.coll, !.log = @ \o new_documents]

(***************************************************************************)
(* The batch functions applied, batch after batch, to collections of whole *)
(* documents.                                                              *)
(***************************************************************************)
DocJobs == {"mark_duplicates", "update_from_source", "transfer_documents",
            "create_docs"}

Vals == {"x", "y"}

StoredIdSets == {1..n : n \in 0..MaxStored}

\* The pipeline variables of a model that runs no executor.
NoPipeline ==
    /\ maxWorkers = 1
    /\ moveMode = FALSE
    /\ keepId = TRUE
    /\ reach = "up"
    /\ cursor = <<>>
    /\ source = {}
    /\ target = {}
    /\ anon = 0
    /\ refHit = {}
    /\ exc = FALSE
    /\ tasks = <<>>
    /\ progress = 0
    /\ reported = FALSE
    /\ jobErrors = 0
    /\ malformed = FALSE
    /\ yielded = <<>>
    /\ run = 1
    /\ snap = [target |-> {}, anon |-> 0, clean |-> FALSE]
    /\ conns = NoConns

\* The collections a script starts from, and the cursor it opens on the
\* source.
StartDb(src, tgt, cur, values) ==
    [src |-> src, tgt |-> tgt, src0 |-> src, tgt0 |-> tgt, cur |-> cur,
     values |-> values, log |-> <<>>, next |-> 1, held |-> <<>>]

\* mark_duplicates: find({}, {"_id": 1, FIELD_TO_COMPARE: 1}) on the source
\* after load_target_field_values() on the target.
InitMark ==
    /\ job = "mark_duplicates"
    /\ \E src \in Collections(StoredIdSets,
                   DocsWith([f |-> Vals, g |-> {"x"}])),
          tgt \in Collections(StoredIdSets, DocsWith([f |-> Vals])) :
          db = StartDb(src, tgt,
                       [k \in 1..Len(find(src)) |->
                           Project(find(src)[k], {FIELD_TO_COMPARE})],
                       load_target_field_values(tgt, batchSize))

\* The field lists a script is configured with (FIELDS_TO_COPY).
CopyLists == SUBSET {"_id", "f", "g"}

\* update_fields_from_source: find(QUERY) on the source, whole documents.
InitUpdateMatching ==
    /\ job = "update_from_source"
    /\ arg \in [fields : CopyLists]
    /\ \E src \in Collections(StoredIdSets,
                   DocsWith([f |-> {"x"}, g |-> {"x"}])),
          tgt \in Collections(StoredIdSets,
                   DocsWith([f |-> {"y"}, g |-> {"y"}])) :
          db = StartDb(src, tgt, find(src), {})

\* The field lists create_docs is configured with (FIELDS_TO_KEEP); the
\* script refuses an empty one.
KeepLists == SUBSET {"_id", "f", "g"} \ {{}}

\* transfer_documents, create_docs: find(QUERY) on the source, whole
\* documents; MOVE_MODE is transfer_documents' alone.
InitInsertMissing ==
    /\ \/ job = "transfer_documents" /\ arg \in [fields : {{}}, move : BOOLEAN]
       \/ job = "create_docs" /\ arg \in [fields : KeepLists, move : {FALSE}]
    /\ \E src \in Collections(StoredIdSets,
                   DocsWith([f |-> {"x"}, g |-> {"x"}])),
          tgt \in Collections(StoredIdSets, DocsWith([f |-> {"y"}])) :
          db = StartDb(src, tgt, find(src), {})

InitBatch ==
    /\ batchSize \in 1..MaxBatch
    /\ pc = "batches"
    /\ NoPipeline
    /\ ret = <<>>
    /\ \/ InitMark /\ arg = <<>>
       \/ InitUpdateMatching
       \/ InitInsertMissing

\* The batch a worker takes next.
NextBatch == chunk_cursor(db.cur, batchSize)[db.next]

MoreBatches == db.next <= Len(chunk_cursor(db.cur, batchSize))

ProcessDuplicates ==
    /\ pc = "batches"
    /\ job = "mark_duplicates"
    /\ MoreBatches
    /\ \E f \in Faults(job, IdsOf(NextBatch)) :
          db' = [process_duplicates_docs(NextBatch, f, db.values, db)
                    EXCEPT !.next = @ + 1]
    /\ UNCHANGED <<config, arg, ret, conns, reach, cursor, source, target, anon, pc,
                   exc, tasks, progress, reported, jobErrors, malformed,
                   yielded, run, snap>>

ProcessBatchUpdateMatching ==
    /\ pc = "batches"
    /\ job = "update_from_source"
    /\ MoreBatches
    /\ \E f \in Faults(job, IdsOf(NextBatch)) :
          db' = [process_batch_update_matching_docs(NextBatch, f, arg.fields, db)
                    EXCEPT !.next = @ + 1]
    /\ UNCHANGED <<config, arg, ret, conns, reach, cursor, source, target, anon, pc,
                   exc, tasks, progress, reported, jobErrors, malformed,
                   yielded, run, snap>>

\* The target documents that carry the identifier of a document of the
\* batch at the moment the batch is processed, added to those recorded
\* for the batches before.
HeldAfter(d, batch) ==
    LET now == Range(IdsOf(batch)) \cap DOMAIN d.tgt
    IN [i \in DOMAIN d.held \cup now |->
           IF i \in now THEN d.tgt[i] ELSE d.held[i]]

ProcessBatchInsertMissing ==
    /\ pc = "batches"
    /\ job \in InsertMissingJobs
    /\ MoreBatches
    /\ \E f \in Faults(job, IdsOf(NextBatch)) :
          db' = [(IF job = "transfer_documents"
                  THEN transfer_insert_missing_docs(NextBatch, f, arg.move, db)
                  ELSE create_insert_missing_docs(NextBatch, f, arg.fields, db))
                    EXCEPT !.next = @ + 1,
                           !.held = HeldAfter(db, NextBatch)]
    /\ UNCHANGED <<config, arg, ret, conns, reach, cursor, source, target, anon, pc,
                   exc, tasks, progress, reported, jobErrors, malformed,
                   yielded, run, snap>>

NextDocs ==
    \/ ProcessDuplicates
    \/ ProcessBatchUpdateMatching
    \/ ProcessBatchInsertMissing

SpecDocs == InitBatch /\ [][NextDocs]_vars

(***************************************************************************)
(* The per-document transforms applied on their own.  Here a document is   *)
(* a Python dict: a sequence of <<key, value>> pairs with distinct keys,   *)
(* in insertion order.                                                     *)
(***************************************************************************)
MaxKeys == 3
MaxRenames == 2

KeysOf(d) == [k \in 1..Len(d) |-> d[k][1]]

\* d[key] for a key the dict holds.
Get(d, key) == d[CHOOSE k \in 1..Len(d) : d[k][1] = key][2]

\* d[key] = value: a key the dict holds keeps its position and takes the
\* value; a new key goes to the end.
DictSet(d, key, value) ==
    IF \E k \in 1..Len(d) : d[k][1] = key
    THEN [k \in 1..Len(d) |-> IF d[k][1] = key THEN <<key, value>> ELSE d[k]]
    ELSE Append(d, <<key, value>>)

\* d.update(other): other's items assigned in other's order.
RECURSIVE DictUpdate(_, _)
DictUpdate(d, other) ==
    IF other = <<>> THEN d
    ELSE DictUpdate(DictSet(d, Head(other)[1], Head(other)[2]), Tail(other))

\* UpdateOne({"_id": document["_id"]}, {"$replaceRoot": {"newRoot": ...}})
ReplaceRoot(document, newRoot) ==
    [op |-> "replaceRoot", key |-> Get(document, "_id"), newRoot |-> newRoot]

\* rename_fields, the loop over document.items(): renamed keys stay where
\* they are.
RECURSIVE RenameItems(_, _, _)
RenameItems(items, FIELDS_TO_RENAME, updated_document) ==
    IF items = <<>> THEN updated_document
    ELSE LET key == Head(items)[1]
             value == Head(items)[2]
         IN RenameItems(Tail(items), FIELDS_TO_RENAME,
               IF key \in DOMAIN FIELDS_TO_RENAME
               THEN DictSet(updated_document, FIELDS_TO_RENAME[key], value)
               ELSE DictSet(updated_document, key, value))

rename_document(document, FIELDS_TO_RENAME) ==
    ReplaceRoot(document, RenameItems(document, FIELDS_TO_RENAME, <<>>))

\* rename_fields_move_to_end, the loop over document.items(): renamed keys
\* are gathered in renamed_fields and added at the end.
RECURSIVE MoveItems(_, _, _, _)
MoveItems(items, FIELDS_TO_RENAME, updated_document, renamed_fields) ==
    IF items = <<>> THEN DictUpdate(updated_document, renamed_fields)
    ELSE LET key == Head(items)[1]
             value == Head(items)[2]
         IN IF key \in DOMAIN FIELDS_TO_RENAME
            THEN MoveItems(Tail(items), FIELDS_TO_RENAME, updated_document,
                    DictSet(renamed_fields, FIELDS_TO_RENAME[key], value))
            ELSE MoveItems(Tail(items), FIELDS_TO_RENAME,
                    DictSet(updated_document, key, value), renamed_fields)

rename_document_move_to_end(document, FIELDS_TO_RENAME) ==
    ReplaceRoot(document, MoveItems(document, FIELDS_TO_RENAME, <<>>, <<>>))

\* Field names, and the documents over them: "_id" first, then up to
\* MaxKeys distinct fields, each valued by a tag of its own.
FieldNames == {"a", "b", "c", "b2"}

Tag(key) == "value of " \o key

Dicts ==
    {<<<<"_id", "oid">>>> \o [k \in 1..Len(ks) |-> <<ks[k], Tag(ks[k])>>] :
        ks \in {q \in SeqsUpTo(FieldNames, MaxKeys) :
                   \A i, j \in 1..Len(q) : i # j => q[i] # q[j]}}

\* The rename tables: up to MaxRenames entries old name -> new name.
RenameTables ==
    UNION {[S -> FieldNames \cup {"_id"}] :
             S \in {T \in SUBSET (FieldNames \cup {"_id"}) :
                       Cardinality(T) <= MaxRenames}}

InitTransform ==
    /\ job = "none"
    /\ batchSize = 1
    /\ pc = "input"
    /\ NoPipeline
    /\ db = <<>>
    /\ arg \in [document : Dicts]
    /\ ret = <<>>

TransformFrame ==
    UNCHANGED <<config, db, conns, reach, cursor, source, target, anon, exc, tasks,
                progress, reported, jobErrors, malformed, yielded, run, snap>>

ApplyRenameFields ==
    /\ pc = "input"
    /\ \E table \in RenameTables :
          /\ arg' = [document |-> arg.document, table |-> table]
          /\ ret' = rename_document(arg.document, table)
    /\ pc' = "renamed"
    /\ TransformFrame

ApplyRenameMoveToEnd ==
    /\ pc = "input"
    /\ \E table \in RenameTables :
          /\ arg' = [document |-> arg.document, table |-> table]
          /\ ret' = rename_document_move_to_end(arg.document, table)
    /\ pc' = "renamed_to_end"
    /\ TransformFrame

\* Defaults given only to the fields the document lacks.
AssignMissingDefaults(new_doc, FIELDS) ==
    new_doc \o SelectSeq(FIELDS,
                  LAMBDA f : \A k \in 1..Len(new_doc) : new_doc[k][1] # f[1])

\* add_fields.process_batch for one document: the document copied item by
\* item, then each configured field assigned its default value.
RECURSIVE AssignDefaults(_, _)
AssignDefaults(new_doc, FIELDS) ==
    IF FIELDS = <<>> THEN new_doc
    ELSE AssignDefaults(DictSet(new_doc, Head(FIELDS)[1], Head(FIELDS)[2]),
                        Tail(FIELDS))

add_fields_document(doc, FIELDS) ==
    ReplaceRoot(doc, AssignDefaults(DictUpdate(<<>>, doc), FIELDS))

\* remove_fields for one document:
\*     UpdateOne({"_id": doc["_id"]}, {"$unset": {field: "" ...}})
remove_fields_document(doc, FIELDS_TO_REMOVE) ==
    [op |-> "unset", key |-> Get(doc, "_id"),
     fields |-> Range(FIELDS_TO_REMOVE)]

\* The configured field lists: FIELD_1..FIELD_3 of add_fields (each with
\* its default value) and FIELDS_TO_REMOVE of remove_fields.
FieldLists == SeqsUpTo(FieldNames \cup {"_id"}, MaxRenames)

ApplyAddFields ==
    /\ pc = "input"
    /\ \E names \in FieldLists :
          LET FIELDS == [k \in 1..Len(names) |-> <<names[k], "default">>]
          IN /\ arg' = [document |-> arg.document, fields |-> FIELDS]
             /\ ret' = add_fields_document(arg.document, FIELDS)
    /\ pc' = "added"
    /\ TransformFrame

ApplyRemoveFields ==
    /\ pc = "input"
    /\ \E names \in FieldLists :
          /\ arg' = [document |-> arg.document, fields |-> names]
          /\ ret' = remove_fields_document(arg.document, names)
    /\ pc' = "removed"
    /\ TransformFrame

NextTransform ==
    \/ ApplyRenameFields
    \/ ApplyRenameMoveToEnd
    \/ ApplyAddFields
    \/ ApplyRemoveFields

SpecTransform == InitTransform /\ [][NextTransform]_vars

(***************************************************************************)
(* count_duplicated: the duplicate analysis of a JSON export.              *)
(***************************************************************************)
FIELD_NAME == "url"
ID_FIELD == "_id"

\* Python's None, the value of a JSON null.
None == "None"

\* doc.get(key)
DocGet(doc, key) == IF key \in DOMAIN doc THEN doc[key] ELSE None

\* index[field_value].append(id) on a defaultdict(list): a new value opens
\* a group at the end of the index, a known one keeps its place.
IndexAppend(index, field_value, id) ==
    DictSet(index, field_value,
            IF \E k \in 1..Len(index) : index[k][1] = field_value
            THEN Append(Get(index, field_value), id)
            ELSE <<id>>)

RECURSIVE IndexLoop(_, _)
IndexLoop(data, index) ==
    IF data = <<>> THEN index
    ELSE LET doc == Head(data)
             field_value == DocGet(doc, FIELD_NAME)
         IN IndexLoop(Tail(data),
               IF field_value # None
               THEN IndexAppend(index, field_value, doc[ID_FIELD])
               ELSE index)

\* Every identifier of a group is a delete candidate, the survivor included.
analyze_duplicates_no_survivor(data) ==
    LET index == IndexLoop(data, <<>>)
        duplicates == SelectSeq(index, LAMBDA e : Len(e[2]) > 1)
    IN [index |-> index, duplicates |-> duplicates,
        delete_ids |-> Concat([k \in 1..Len(duplicates) |-> duplicates[k][2]])]

\* analyze_duplicates: (index, duplicates, delete_ids).
analyze_duplicates(data) ==
    LET index == IndexLoop(data, <<>>)
        duplicates == SelectSeq(index, LAMBDA e : Len(e[2]) > 1)
    IN [index |-> index, duplicates |-> duplicates,
        delete_ids |->
           Concat([k \in 1..Len(duplicates) |-> Tail(duplicates[k][2])])]

\* The total taken from the index instead of the input list.
stats_counting_indexed(index, duplicates, delete_ids, total_items) ==
    [total_documents |-> SeqSum([k \in 1..Len(index) |-> Len(index[k][2])]),
     total_keys |-> Len(index),
     total_duplicates |-> Len(duplicates),
     total_duplicated_ids |->
        SeqSum([k \in 1..Len(duplicates) |-> Len(duplicates[k][2])]),
     total_delete_ids |-> Len(delete_ids)]

\* write_outputs, the figures of stats.txt.
stats(index, duplicates, delete_ids, total_items) ==
    [total_documents |-> total_items,
     total_keys |-> Len(index),
     total_duplicates |-> Len(duplicates),
     total_duplicated_ids |->
        SeqSum([k \in 1..Len(duplicates) |-> Len(duplicates[k][2])]),
     total_delete_ids |-> Len(delete_ids)]

\* The input file: a JSON list of exported documents (the k-th carries the
\* k-th identifier, counted up or down), a JSON value that is no list, or
\* text that is no JSON.
UrlValues == {"X", "Y", "Z"}

Exports ==
    {[k \in 1..Len(us) |->
         IF us[k] = "absent"
         THEN (ID_FIELD :> (IF up THEN k ELSE Len(us) + 1 - k))
         ELSE (ID_FIELD :> (IF up THEN k ELSE Len(us) + 1 - k))
                 @@ (FIELD_NAME :> us[k])] :
        us \in SeqsUpTo(UrlValues \cup {None, "absent"}, MaxLen),
        up \in BOOLEAN}

InputFiles ==
    {[kind |-> "list", data |-> d] : d \in Exports}
       \cup {[kind |-> "object", data |-> <<>>],
             [kind |-> "invalid", data |-> <<>>]}

InitAnalysis ==
    /\ job = "count_duplicated"
    /\ batchSize = 1
    /\ pc = "pending"
    /\ NoPipeline
    /\ db = <<>>
    /\ arg \in InputFiles
    /\ ret = [data |-> <<>>, index |-> <<>>, duplicates |-> <<>>,
              delete_ids |-> <<>>, files |-> {}, stats |-> <<>>]

\* load_input_data: json.load raises on text that is no JSON, ValueError on
\* a value that is no list; the error is logged and raised again, and the
\* main block's handler logs it.
load_input_data ==
    /\ pc = "pending"
    /\ job = "count_duplicated"
    /\ IF arg.kind = "list"
       THEN /\ ret' = [ret EXCEPT !.data = arg.data]
            /\ pc' = "loaded"
            /\ UNCHANGED jobErrors
       ELSE /\ pc' = "failed"
            /\ jobErrors' = jobErrors + 1
            /\ UNCHANGED ret
    /\ UNCHANGED <<config, db, arg, conns, reach, cursor, source, target, anon, exc,
                   tasks, progress, reported, malformed, yielded, run, snap>>

AnalyzeDuplicates ==
    /\ pc = "loaded"
    /\ ret' = [ret EXCEPT !.index = analyze_duplicates(ret.data).index,
                          !.duplicates = analyze_duplicates(ret.data).duplicates,
                          !.delete_ids = analyze_duplicates(ret.data).delete_ids]
    /\ pc' = "analyzed"
    /\ UNCHANGED <<config, db, arg, conns, reach, cursor, source, target, anon, exc,
                   tasks, progress, reported, jobErrors, malformed, yielded,
                   run, snap>>

\* write_outputs(index, duplicates, delete_ids, total_items=len(data)),
\* then the completion line.
write_outputs ==
    /\ pc = "analyzed"
    /\ ret' = [ret EXCEPT
                 !.files = {"duplicates.json", "duplicated_ids_to_delete.txt",
                            "stats.txt"},
                 !.stats = stats(ret.index, ret.duplicates, ret.delete_ids,
                                 Len(ret.data))]
    /\ pc' = "completed"
    /\ reported' = TRUE
    /\ UNCHANGED <<config, db, arg, conns, reach, cursor, source, target, anon, exc,
                   tasks, progress, jobErrors, malformed, yielded, run, snap>>

NextAnalysis ==
    \/ load_input_data
    \/ AnalyzeDuplicates
    \/ write_outputs

SpecAnalysis == InitAnalysis /\ [][NextAnalysis]_vars

(***************************************************************************)
(* The scripts driven by an input file, from the text of the file: the two *)
(* identifier-file pipeline scripts, delete_documents_by_ids, and          *)
(* count_duplicated.                                                       *)
(***************************************************************************)
MaxLines == 2

\* The lines of an identifier file (without the line terminator): the two
\* identifiers, bare or surrounded by blanks, an empty line, a line of
\* blanks, and a line that is no identifier.
Lines == {"1", " 2 ", "", "  ", "zz"}

\* line.strip()
strip(line) ==
    CASE line = " 2 " -> "2"
      [] line = "  " -> ""
      [] OTHER -> line

\* ObjectId(s) accepts the text of an identifier and raises InvalidId on
\* anything else.
ValidOid(s) == s \in {"1", "2"}

ObjectId(s) == IF s = "1" THEN 1 ELSE 2

\* The filter dropped: every line is handed to ObjectId.
read_ids_keeping_blanks(lines) ==
    LET kept == [k \in 1..Len(lines) |-> strip(lines[k])]
    IN IF \E k \in 1..Len(kept) : ~ValidOid(kept[k])
       THEN [raised |-> TRUE, ids |-> <<>>]
       ELSE [raised |-> FALSE,
             ids |-> [k \in 1..Len(kept) |-> ObjectId(kept[k])]]

\* read_ids_from_file (and the same comprehension in
\* delete_documents_by_ids):
\*     [ObjectId(line.strip()) for line in file if line.strip()]
read_ids_from_file(lines) ==
    LET kept == SelectSeq([k \in 1..Len(lines) |-> strip(lines[k])],
                          LAMBDA t : t # "")
    IN IF \E k \in 1..Len(kept) : ~ValidOid(kept[k])
       THEN [raised |-> TRUE, ids |-> <<>>]
       ELSE [raised |-> FALSE,
             ids |-> [k \in 1..Len(kept) |-> ObjectId(kept[k])]]

IdFileJobs == IdListJobs \cup {"delete_by_ids"}

InitIdFile ==
    /\ job \in IdFileJobs
    /\ batchSize \in 1..MaxBatch
    /\ maxWorkers \in 1..MaxWorkers
    /\ moveMode \in (IF job = "transfer_by_ids" THEN BOOLEAN ELSE {FALSE})
    /\ keepId = TRUE
    /\ cursor = <<>>
    /\ source \in {{1}, FileIds}
    /\ target \in (IF job \in IdListJobs THEN {{}, {1}} ELSE {{}})
    /\ refHit = {}
    /\ anon = 0
    /\ reach = "unknown"
    /\ pc = "pending"
    /\ exc = FALSE
    /\ tasks = <<>>
    /\ progress = 0
    /\ reported = FALSE
    /\ jobErrors = 0
    /\ malformed = FALSE
    /\ yielded = <<>>
    /\ run = 1
    /\ snap = [target |-> {}, anon |-> 0, clean |-> FALSE]
    /\ conns = NoConns
    /\ db = <<>>
    /\ arg \in [lines : SeqsUpTo(Lines, MaxLines)]
    /\ ret = <<>>

\* The identifier file is read before any connection is made; an
\* exception goes to the script's handler.
ReadIdFile ==
    /\ pc = "pending"
    /\ job \in IdFileJobs
    /\ LET r == read_ids_from_file(arg.lines)
       IN /\ malformed' = r.raised
          /\ cursor' = r.ids
          /\ IF r.raised
             THEN JobFails
             ELSE pc' = "opening" /\ UNCHANGED <<jobErrors, reported, exc>>
    /\ UNCHANGED <<config, detail, reach, source, target, anon, tasks,
                   progress, yielded, run, snap>>

\* delete_documents_by_ids after the file is read: the connection, one
\* delete_many({"_id": {"$in": ids_to_delete}}), the count logged.
DeleteMany ==
    /\ pc = "opening"
    /\ job = "delete_by_ids"
    /\ \E r \in {"up", "ctor_fails", "op_fails"} :
          /\ reach' = r
          /\ CASE r = "up" ->
                     /\ conns' = LeaveScopes(Entered(conns, 1), FALSE).conns
                     /\ source' = source \ Range(cursor)
                     /\ reported' = TRUE
                     /\ pc' = "completed"
                     /\ UNCHANGED <<jobErrors, exc>>
               [] r = "ctor_fails" ->
                     JobFails /\ UNCHANGED <<source, conns>>
               [] r = "op_fails" ->
                     /\ conns' = LeaveScopes(Entered(conns, 1), TRUE).conns
                     /\ JobFails
                     /\ UNCHANGED source
    /\ UNCHANGED <<config, db, arg, ret, cursor, target, anon, tasks, progress,
                   malformed, yielded, run, snap>>

InitInput ==
    \/ InitIdFile
    \/ InitAnalysis

NextInput ==
    \/ ReadIdFile
    \/ DeleteMany
    \/ Open
    \/ Submit
    \/ StartTask
    \/ FinishTask
    \/ CollectCompleted
    \/ LeaveLoop
    \/ ExecutorExit
    \/ load_input_data
    \/ AnalyzeDuplicates
    \/ write_outputs

SpecInput == InitInput /\ [][NextInput]_vars

(***************************************************************************)
(* MongoDBConnection.update_document: one update_one with retries.         *)
(*     for attempt in range(retries):                                      *)
(*         try:                                                            *)
(*             result = self.collection.update_one(filter, {'$set': ...})  *)
(*             if result.matched_count: ...; return result                 *)
(*             else: ...                                                   *)
(*             return result                                               *)
(*         except Exception:                                               *)
(*             if attempt < retries - 1: time.sleep(delay)                 *)
(*             else: return None                                           *)
(***************************************************************************)
MaxRetries == 3
MaxDelay == 2

\* Only a result that matched a document is returned.
returns_only_matched(matched_count) == matched_count > 0

\* Both branches of "if result.matched_count" end in "return result".
returns_result(matched_count) == TRUE

\* "if attempt < retries - 1": another attempt follows this failed one.
sleeps_before_retry(attempt, retries) == attempt < retries - 1

InitRetry ==
    /\ job = "update_document"
    /\ batchSize = 1
    /\ pc = "calling"
    /\ NoPipeline
    /\ \E coll \in Collections({{}, {1}}, DocsWith([f |-> {"y"}])) :
          db = [tgt |-> coll, tgt0 |-> coll]
    /\ arg \in [retries : 0..MaxRetries, delay : 1..MaxDelay,
                filter_id : {1, 2}, update_values : {("f" :> "x")}]
    /\ ret = [attempt |-> 0, calls |-> 0, raised |-> 0, slept |-> 0,
              result |-> "pending", matched_count |-> 0]

RetryFrame ==
    UNCHANGED <<config, arg, conns, reach, cursor, source, target, anon, exc, tasks,
                progress, reported, jobErrors, malformed, yielded, run, snap>>

\* One pass of the loop body in which update_one returns.
UpdateReturns ==
    /\ pc = "calling"
    /\ job = "update_document"
    /\ ret.attempt < arg.retries
    /\ LET matched_count == IF arg.filter_id \in DOMAIN db.tgt THEN 1 ELSE 0
       IN /\ db' = [db EXCEPT
                      !.tgt = update_one(@, arg.filter_id, arg.update_values)]
          /\ IF returns_result(matched_count)
             THEN /\ ret' = [ret EXCEPT !.calls = @ + 1,
                                        !.result = "UpdateResult",
                                        !.matched_count = matched_count]
                  /\ pc' = "returned"
             ELSE /\ ret' = [ret EXCEPT !.calls = @ + 1, !.attempt = @ + 1]
                  /\ pc' = "calling"
    /\ RetryFrame

\* One pass of the loop body in which update_one raises, the store having
\* applied the update or not.
UpdateRaises ==
    /\ pc = "calling"
    /\ job = "update_document"
    /\ ret.attempt < arg.retries
    /\ \E applied \in BOOLEAN :
          db' = [db EXCEPT
                   !.tgt = IF applied
                           THEN update_one(@, arg.filter_id, arg.update_values)
                           ELSE @]
    /\ IF sleeps_before_retry(ret.attempt, arg.retries)
       THEN /\ ret' = [ret EXCEPT !.calls = @ + 1, !.raised = @ + 1,
                                  !.attempt = @ + 1, !.slept = @ + arg.delay]
            /\ pc' = "calling"
       ELSE /\ ret' = [ret EXCEPT !.calls = @ + 1, !.raised = @ + 1,
                                  !.result = "None"]
            /\ pc' = "returned"
    /\ RetryFrame

\* range(retries) is exhausted: the function falls off its end (None).
LoopExhausted ==
    /\ pc = "calling"
    /\ job = "update_document"
    /\ ret.attempt >= arg.retries
    /\ ret' = [ret EXCEPT !.result = "None"]
    /\ pc' = "returned"
    /\ UNCHANGED db
    /\ RetryFrame

NextRetry ==
    \/ UpdateReturns
    \/ UpdateRaises
    \/ LoopExhausted

\* The calling thread runs on: update_one returns or raises within its
\* socket timeout and time.sleep(delay) ends.
SpecRetry == InitRetry /\ [][NextRetry]_vars /\ WF_vars(NextRetry)

(***************************************************************************)
(* The identifier-list scripts, store call by store call.  Each task walks *)
(* its batch; for every identifier it makes up to three store calls        *)
(* (find_one, then insert_one or update_one, then delete_one), each of     *)
(* which may raise, and the calls of different worker threads interleave.  *)
(* ret holds the tasks: the batch, the position in it, the call the task   *)
(* makes next, the document find_one returned, the count the task keeps,   *)
(* the identifiers it logged an error for, the identifiers it tried and    *)
(* the identifiers it inserted and deleted.                                *)
(***************************************************************************)

\* copy_field_by_ids: the field copied from the source document.
FIELD_TO_COPY == "f"

\* A task that has not started.
QueuedWalk(batch) ==
    [batch |-> batch, st |-> "queued", i |-> 1, phase |-> "find",
     doc |-> <<>>, count |-> 0, errors |-> <<>>, tried |-> <<>>,
     inserted |-> {}, deleted |-> {}]

\* The identifier lists: the identifiers 1..n in order, alone or followed
\* by one of them again, so that a list may name an identifier twice and
\* may name identifiers the source does not hold.
IdLists ==
    UNION {{SortedSeq(1..n)} \cup {Append(SortedSeq(1..n), k) : k \in 1..n} :
             n \in 1..MaxStored}

\* The for loop goes on to the next identifier; after the last one the
\* function returns its count.
NextId(t) ==
    [t EXCEPT !.i = @ + 1, !.phase = "find", !.doc = <<>>,
              !.st = IF t.i + 1 > Len(t.batch) THEN "returned" ELSE @]

\* An error handler that gives the batch up.
ErrorEndsBatch(t) ==
    [t EXCEPT !.errors = Append(@, t.batch[t.i]), !.st = "returned"]

\* except Exception as e: logger.error(...) -- inside the for loop, so the
\* loop goes on.
ErrorCaught(t) == NextId([t EXCEPT !.errors = Append(@, t.batch[t.i])])

\* A move that goes on to delete_one whether or not insert_one raised.
AfterInsertIgnoringError(t, raised, move) ==
    IF move THEN [t EXCEPT !.phase = "delete"]
    ELSE NextId([t EXCEPT !.count = @ + 1])

\* A script that moves whatever MOVE_MODE says.
AfterInsertAlwaysMoving(t, raised, move) ==
    IF raised THEN ErrorCaught(t) ELSE [t EXCEPT !.phase = "delete"]

\* What follows insert_one: the except branch when it raised; otherwise
\* delete_one in move mode, and moved_count += 1 at once in copy mode.
AfterInsert(t, raised, move) ==
    IF raised THEN ErrorCaught(t)
    ELSE IF move THEN [t EXCEPT !.phase = "delete"]
         ELSE NextId([t EXCEPT !.count = @ + 1])

\* copy_field_in_parallel's test:  FIELD_TO_COPY in source_doc
has_field_to_copy(source_doc) == FIELD_TO_COPY \in DOMAIN source_doc

\* The source documents: with or without the field for the copy, whole
\* for the transfer.
WalkShapes(j) ==
    IF j = "copy_field_by_ids" THEN DocsWith([f |-> {"x"}]) ELSE {[f |-> "x"]}

\* The scripts followed store call by store call: the two identifier-list
\* scripts and transfer_documents, the other script with a move mode.
WalkJobs == IdListJobs \cup {"transfer_documents"}

InitByIds ==
    /\ job \in WalkJobs
    /\ batchSize \in {MaxBatch - 1, MaxBatch}
    /\ maxWorkers \in {1, MaxWorkers}
    /\ moveMode \in (IF job = "copy_field_by_ids" THEN {FALSE} ELSE BOOLEAN)
    /\ \E src \in Collections(StoredIdSets, WalkShapes(job)),
          tgt \in Collections(StoredIdSets, {[f |-> "y"]}) :
          /\ db = StartDb(src, tgt, <<>>, {})
          /\ cursor \in (IF job \in IdListJobs THEN IdLists
                         ELSE {SortedSeq(DOMAIN src)})
    /\ arg = <<>>
    /\ ret = [k \in 1..Len(Batches(job, cursor, batchSize)) |->
                 QueuedWalk(Batches(job, cursor, batchSize)[k])]
    /\ pc = "walking"
    /\ keepId = TRUE
    /\ reach = "up"
    /\ source = {}
    /\ target = {}
    /\ anon = 0
    /\ refHit = {}
    /\ exc = FALSE
    /\ tasks = <<>>
    /\ progress = 0
    /\ reported = FALSE
    /\ jobErrors = 0
    /\ malformed = FALSE
    /\ yielded = <<>>
    /\ run = 1
    /\ snap = [target |-> {}, anon |-> 0, clean |-> FALSE]
    /\ conns = NoConns

WalkFrame ==
    UNCHANGED <<config, arg, conns, reach, cursor, source, target, anon, exc,
                tasks, progress, reported, jobErrors, malformed, yielded,
                run, snap, pc>>

Walking == {k \in 1..Len(ret) : ret[k].st = "running"}

\* The identifier a task is at.
At(k) == ret[k].batch[ret[k].i]

Calls(k, phase) ==
    /\ pc = "walking"
    /\ k \in Walking
    /\ ret[k].phase = phase

\* An idle worker takes the oldest queued task.
StartWalk ==
    /\ pc = "walking"
    /\ WorkerIdle(Walking, maxWorkers)
    /\ \E k \in 1..Len(ret) :
          /\ ret[k].st = "queued"
          /\ \A n \in 1..(k - 1) : ret[n].st # "queued"
          /\ ret' = [ret EXCEPT ![k].st = "running"]
    /\ UNCHANGED db
    /\ WalkFrame

\* transfer_documents_by_ids: document = source_conn.collection.find_one(
\* {"_id": _id}); "if document:" skips an identifier the source lacks.
MoveFindOne ==
    /\ job = "transfer_by_ids"
    /\ \E k \in 1..Len(ret) :
          /\ Calls(k, "find")
          /\ LET t == [ret[k] EXCEPT !.tried = Append(@, At(k))]
             IN \E raises \in BOOLEAN :
                   ret' = [ret EXCEPT ![k] =
                             IF raises THEN ErrorCaught(t)
                             ELSE IF At(k) \in DOMAIN db.src
                                  THEN [t EXCEPT !.phase = "insert",
                                                 !.doc = db.src[At(k)]]
                                  ELSE NextId(t)]
    /\ UNCHANGED db
    /\ WalkFrame

\* target_conn.collection.insert_one(document): raises when the store
\* fails or the target holds the identifier (duplicate key).  In copy mode
\* the count goes up at once; in move mode delete_one comes first.
MoveInsertOne ==
    /\ job = "transfer_by_ids"
    /\ \E k \in 1..Len(ret) :
          /\ Calls(k, "insert")
          /\ \E fails \in BOOLEAN :
                LET t == ret[k]
                    op == WriteOp("target", "insert", At(k), t.doc)
                    w == InsertOps(db.tgt, <<op>>, IF fails THEN {At(k)} ELSE {},
                                   TRUE)
                    put == IF w.raised THEN t
                           ELSE [t EXCEPT !.inserted = @ \cup {At(k)}]
                IN /\ db' = [db EXCEPT !.tgt = w.coll, !.log = Append(@, op)]
                   /\ ret' = [ret EXCEPT ![k] =
                                AfterInsert(put, w.raised, moveMode)]
    /\ WalkFrame

\* source_conn.collection.delete_one({"_id": _id}), then moved_count += 1.
MoveDeleteOne ==
    /\ job = "transfer_by_ids"
    /\ \E k \in 1..Len(ret) :
          /\ Calls(k, "delete")
          /\ \E fails \in BOOLEAN :
                LET t == ret[k]
                    op == WriteOp("source", "delete", At(k), t.doc)
                IN /\ db' = [db EXCEPT
                               !.src = IF fails THEN @
                                       ELSE delete_many(@, {At(k)}),
                               !.log = Append(@, op)]
                   /\ ret' = [ret EXCEPT ![k] =
                                IF fails THEN ErrorCaught(t)
                                ELSE NextId([t EXCEPT
                                               !.count = @ + 1,
                                               !.deleted = @ \cup {At(k)}])]
    /\ WalkFrame

\* copy_field_by_ids: source_doc = find_one({"_id": _id},
\* {FIELD_TO_COPY: 1}); "if source_doc and FIELD_TO_COPY in source_doc"
\* skips an identifier the source lacks and a document without the field.
CopyFindOne ==
    /\ job = "copy_field_by_ids"
    /\ \E k \in 1..Len(ret) :
          /\ Calls(k, "find")
          /\ LET t == [ret[k] EXCEPT !.tried = Append(@, At(k))]
             IN \E raises \in BOOLEAN :
                   ret' = [ret EXCEPT ![k] =
                             IF raises THEN ErrorCaught(t)
                             ELSE IF /\ At(k) \in DOMAIN db.src
                                     /\ has_field_to_copy(
                                           Project(db.src[At(k)],
                                                   {FIELD_TO_COPY}))
                                  THEN [t EXCEPT
                                          !.phase = "update",
                                          !.doc = Project(db.src[At(k)],
                                                          {FIELD_TO_COPY})]
                                  ELSE NextId(t)]
    /\ UNCHANGED db
    /\ WalkFrame

\* The {"$set": {FIELD_TO_COPY: field_value}} of copy_field_in_parallel.
CopiedField(source_doc) ==
    [key \in {FIELD_TO_COPY} \cap DOMAIN source_doc |-> source_doc[key]]

\* target_conn.collection.update_one({"_id": _id}, {"$set": ...}) without
\* upsert; updated_count goes up when the update modified a document.
CopyUpdateOne ==
    /\ job = "copy_field_by_ids"
    /\ \E k \in 1..Len(ret) :
          /\ Calls(k, "update")
          /\ \E fails \in BOOLEAN :
                LET t == ret[k]
                    op == WriteOp("target", "update_one", At(k),
                                  CopiedField(t.doc))
                    new == update_one(db.tgt, At(k), op.doc)
                IN /\ db' = [db EXCEPT !.tgt = IF fails THEN @ ELSE new,
                                       !.log = Append(@, op)]
                   /\ ret' = [ret EXCEPT ![k] =
                                IF fails THEN ErrorCaught(t)
                                ELSE NextId([t EXCEPT !.count = @ +
                                        (IF new # db.tgt THEN 1 ELSE 0)])]
    /\ WalkFrame

\* except Exception as e: logger.error(...) -- around the whole body of
\* transfer_documents.process_batch_insert_missing: the task ends.
BatchErrorCaught(t) ==
    [t EXCEPT !.errors = @ \o t.batch, !.st = "returned"]

\* transfer_documents.process_batch_insert_missing, first store call:
\* distinct() for the identifiers the target holds; new_documents are the
\* batch's other documents, as the cursor delivered them.  With none the
\* task returns.
BulkLookup ==
    /\ job = "transfer_documents"
    /\ \E k \in 1..Len(ret) :
          /\ Calls(k, "find")
          /\ LET t == [ret[k] EXCEPT !.tried = ret[k].batch]
                 existing_ids == existing_ids_distinct(db.tgt, t.batch)
                 fresh == SelectSeq(t.batch, LAMBDA id : id \notin existing_ids)
                 new_documents == [n \in 1..Len(fresh) |-> db.src0[fresh[n]]]
             IN \E raises \in BOOLEAN :
                   ret' = [ret EXCEPT ![k] =
                             IF raises THEN BatchErrorCaught(t)
                             ELSE IF new_documents = <<>>
                                  THEN [t EXCEPT !.st = "returned"]
                                  ELSE [t EXCEPT !.phase = "insert",
                                                 !.doc = new_documents]]
    /\ UNCHANGED db
    /\ WalkFrame

\* target_conn.collection.bulk_write(bulk_inserts, ordered=False): the
\* call raises when the store rejects any of the inserts, and the delete
\* of move mode is then not reached.
BulkInsert ==
    /\ job = "transfer_documents"
    /\ \E k \in 1..Len(ret) :
          /\ Calls(k, "insert")
          /\ \E bad \in SUBSET Range(IdsOf(ret[k].doc)) :
                LET t == ret[k]
                    bulk_inserts == [n \in 1..Len(t.doc) |->
                                        WriteOp("target", "insert",
                                                t.doc[n]["_id"], t.doc[n])]
                    w == InsertOps(db.tgt, bulk_inserts, bad, FALSE)
                    put == [t EXCEPT !.inserted =
                               {id \in Range(IdsOf(t.doc)) :
                                   id \in DOMAIN w.coll \ DOMAIN db.tgt}]
                IN /\ db' = [db EXCEPT !.tgt = w.coll, !.log = @ \o bulk_inserts]
                   /\ ret' = [ret EXCEPT ![k] =
                                IF w.raised THEN BatchErrorCaught(put)
                                ELSE IF moveMode
                                     THEN [put EXCEPT !.phase = "delete"]
                                     ELSE [put EXCEPT !.st = "returned"]]
    /\ WalkFrame

\* source_conn.collection.delete_many({"_id": {"$in": [...]}}) for the
\* documents just inserted.
BulkDelete ==
    /\ job = "transfer_documents"
    /\ \E k \in 1..Len(ret) :
          /\ Calls(k, "delete")
          /\ \E fails \in BOOLEAN :
                LET t == ret[k]
                    ids == Range(IdsOf(t.doc))
                    deletes == [n \in 1..Len(t.doc) |->
                                   WriteOp("source", "delete",
                                           t.doc[n]["_id"], t.doc[n])]
                IN /\ db' = [db EXCEPT
                               !.src = IF fails THEN @ ELSE delete_many(@, ids),
                               !.log = @ \o deletes]
                   /\ ret' = [ret EXCEPT ![k] =
                                IF fails THEN BatchErrorCaught(t)
                                ELSE [t EXCEPT !.deleted = ids,
                                               !.st = "returned"]]
    /\ WalkFrame

NextByIds ==
    \/ StartWalk
    \/ MoveFindOne
    \/ MoveInsertOne
    \/ MoveDeleteOne
    \/ CopyFindOne
    \/ CopyUpdateOne
    \/ BulkLookup
    \/ BulkInsert
    \/ BulkDelete

\* Every store call returns or raises within its socket timeout, and the
\* executor's threads keep running.
SpecByIds == InitByIds /\ [][NextByIds]_vars /\ WF_vars(NextByIds)

(***************************************************************************)
(* Properties.                                                             *)
(***************************************************************************)

\* ceil(n / b) for b > 0.
CeilDiv(n, b) == (n + b - 1) \div b

\* The contract of a chunker's output out for the input in and the size b.
ChunkContract(in, b, out) ==
    /\ Len(out) = CeilDiv(Len(in), b)
    /\ \A k \in 1..Len(out) :
          /\ k < Len(out) => Len(out[k]) = b
          /\ Len(out[k]) \in 1..b
    /\ Concat(out) = in
    /\ in = <<>> => out = <<>>

\* C1: for every input of length n and every batch size b > 0, chunk_cursor
\* (and the slicing chunker of the list-driven scripts) yields ceil(n/b)
\* batches, each of length b except possibly the last (length in 1..b),
\* whose concatenation in yield order is the input; an empty input yields
\* no batch at all.
ChunkingComplete ==
    pc \in {"chunked", "sliced"} => ChunkContract(cursor, batchSize, yielded)

\* Witness of C1: chunk_cursor has yielded several batches, the last one
\* shorter than the batch size.
ChunkingWitness ==
    /\ pc = "chunked"
    /\ Len(yielded) >= 2
    /\ Len(yielded[Len(yielded)]) < batchSize


(***************************************************************************)
(* Measures over the futures of a run.                                     *)
(***************************************************************************)
Done(t) == t.st = "returned" \/ t.st = "raised"

\* Write operations produced in this run that target document d.
OpsOn(d) == SeqSum([i \in 1..Len(tasks) |-> CountIn(tasks[i].ops, {d})])

\* Batch positions of this run that hold document d.
PlacesOf(d) == SeqSum([i \in 1..Len(tasks) |-> CountIn(tasks[i].batch, {d})])

\* Operations the store applied, over all batches of this run.
SumApplied == SeqSum([i \in 1..Len(tasks) |-> tasks[i].applied])

\* Jobs whose task sends its writes as one batch request.
BatchWriteJobs == {"add_fields", "update_field", "remove_fields",
                   "rename_fields", "transfer_documents", "create_docs"}

\* Jobs that write every document of the batch, whatever it holds.
UnconditionalJobs == {"add_fields", "update_field", "remove_fields",
                      "rename_fields"}

\* C2: at every point of a run the progress total is at most the number of
\* documents the job's query matches (the identifiers the job streams).
ProgressWithinCount == progress <= Len(cursor)

\* C3: once the pool has drained and the job is complete, the progress
\* total is the sum over the batches of the operations the store applied.
ProgressEqualsApplied ==
    (pc = "completed" /\ reach = "up") => progress = SumApplied

\* C4: when the store rejects one operation of a batch request of k
\* operations, the other k-1 are applied.
PartialFailureIsolation ==
    \A i \in 1..Len(tasks) :
       (job \in BatchWriteJobs /\ Done(tasks[i]) /\ tasks[i].rej = 1)
          => tasks[i].applied = tasks[i].att - 1

\* C5: a batch task that failed was logged and adds nothing to the
\* progress total, and the job completes only with every task finished.
BatchFailureContained ==
    /\ \A i \in 1..Len(tasks) :
          tasks[i].failed =>
             /\ tasks[i].logged > 0
             /\ tasks[i].collected => Delta(job, tasks[i]) = 0
    /\ pc = "completed" => \A i \in 1..Len(tasks) : Done(tasks[i])

\* C6: the completion report is logged only when every submitted batch
\* task has finished: no task is queued or running once it is out.
ReportAfterDrain ==
    reported => \A i \in 1..Len(tasks) : tasks[i].st \notin {"queued", "running"}

\* Witness of C6: the report is out after several tasks ran, one of which
\* failed.
ReportAfterDrainWitness ==
    /\ reported
    /\ Len(tasks) >= 2
    /\ \E i \in 1..Len(tasks) : tasks[i].failed

FailsOnlyOnFatalError ==
    pc = "failed" => (reach \in {"ctor_fails", "op_fails"} \/ malformed)

\* C9: with the store unreachable no batch task is submitted, the job ends
\* failed without the completion report, and the error is logged once, at
\* job level.
UnreachableStoreFailsJob ==
    reach \in {"ctor_fails", "op_fails"} =>
       /\ tasks = <<>>
       /\ ~reported
       /\ Terminal => (pc = "failed" /\ jobErrors = 1)

\* C10: a second run of an insert-missing job, after a first run in which
\* nothing failed, inserts nothing and leaves the target as the first run
\* left it.
SecondRunInsertsNothing ==
    (run = 2 /\ Terminal /\ snap.clean /\ reach = "up" /\ NoTaskFailed
       /\ \A i \in 1..Len(tasks) : Done(tasks[i]))
    => /\ target = snap.target
       /\ anon = snap.anon
       /\ SumApplied = 0

(***************************************************************************)
(* Properties of the batch functions at document level.                    *)
(***************************************************************************)

\* The write operations sent so far that are keyed by identifier i.
LogOf(i) == SelectSeq(db.log, LAMBDA o : o.key = i)

\* The reference set: the comparison values the target documents hold.
ReferenceSet ==
    {db.tgt0[i][FIELD_TO_COMPARE] :
        i \in {k \in DOMAIN db.tgt0 : FIELD_TO_COMPARE \in DOMAIN db.tgt0[k]}}

InReference(doc) ==
    /\ FIELD_TO_COMPARE \in DOMAIN doc
    /\ doc[FIELD_TO_COMPARE] \in ReferenceSet

\* C11: in the mark-duplicates job a source document whose comparison field
\* is missing, or whose value is not in the reference set, is sent no write
\* operation and stays as it was; every operation sent is the
\* $set {duplicated: true} of a source document whose comparison value is
\* in the reference set; and no document is added to or removed from either
\* collection.
MarksOnlyMembers ==
    job = "mark_duplicates" =>
       /\ DOMAIN db.src = DOMAIN db.src0 /\ db.tgt = db.tgt0
       /\ \A i \in DOMAIN db.src0 :
             ~InReference(db.src0[i]) =>
                 LogOf(i) = <<>> /\ db.src[i] = db.src0[i]
       /\ \A k \in 1..Len(db.log) :
             /\ db.log[k] = WriteOp("source", "update_one", db.log[k].key,
                                    ("duplicated" :> TRUE))
             /\ db.log[k].key \in DOMAIN db.src0
             /\ InReference(db.src0[db.log[k].key])

\* Witness of C11: every batch was processed; one document was marked and
\* another, whose comparison value is not in the non-empty reference set,
\* was not.
MarksOnlyMembersWitness ==
    /\ job = "mark_duplicates"
    /\ ~MoreBatches
    /\ ReferenceSet # {}
    /\ \E i, k \in DOMAIN db.src :
          /\ "duplicated" \in DOMAIN db.src[i]
          /\ FIELD_TO_COMPARE \in DOMAIN db.src0[k]
          /\ db.src[k] = db.src0[k]
          /\ ~InReference(db.src0[k])

(***************************************************************************)
(* Properties of the per-document transforms.                              *)
(***************************************************************************)

\* The name a key has after the renaming.
NewName(table, key) == IF key \in DOMAIN table THEN table[key] ELSE key

\* C12: for every document and rename table, in-place renaming yields the
\* original key sequence with each key of the table replaced by its new
\* name at the same position, and move-to-end renaming yields the
\* non-renamed keys in original order followed by the new names of the
\* renamed keys in their original relative order.
RenameKeepsOrder ==
    LET keys == KeysOf(arg.document)
        kept == SelectSeq(keys, LAMBDA k : k \notin DOMAIN arg.table)
        moved == SelectSeq(keys, LAMBDA k : k \in DOMAIN arg.table)
    IN /\ pc = "renamed" =>
             KeysOf(ret.newRoot) =
                [k \in 1..Len(keys) |-> NewName(arg.table, keys[k])]
       /\ pc = "renamed_to_end" =>
             KeysOf(ret.newRoot) =
                kept \o [k \in 1..Len(moved) |-> arg.table[moved[k]]]

(***************************************************************************)
(* Properties of the duplicate analysis.                                   *)
(***************************************************************************)
Analyzed == pc \in {"analyzed", "completed"}

\* The positions of the input list whose document holds the value v.
PositionsOf(v) ==
    {k \in 1..Len(ret.data) : DocGet(ret.data[k], FIELD_NAME) = v}

\* The non-null values of the field over the input list.
ValuesIn == {DocGet(ret.data[k], FIELD_NAME) : k \in 1..Len(ret.data)} \ {None}

\* The identifiers of the documents holding v, in encounter order.
GroupOf(v) ==
    LET ps == SortedSeq(PositionsOf(v))
    IN [k \in 1..Len(ps) |-> ret.data[ps[k]][ID_FIELD]]

\* C13: analyze_duplicates builds one group per non-null value, whose
\* members are the identifiers of the documents holding it in encounter
\* order; the duplicates are exactly the groups of more than one
\* identifier; and the delete candidates are exactly the identifiers of the
\* duplicate groups other than the first of each, once each.
GroupsKeepFirst ==
    Analyzed =>
       /\ {e[1] : e \in Range(ret.index)} = ValuesIn
       /\ Len(ret.index) = Cardinality(ValuesIn)
       /\ \A e \in Range(ret.index) : e[2] = GroupOf(e[1])
       /\ Range(ret.duplicates) = {e \in Range(ret.index) : Len(e[2]) > 1}
       /\ Len(ret.duplicates) = Cardinality(Range(ret.duplicates))
       /\ Range(ret.delete_ids) =
             UNION {Range(Tail(GroupOf(v))) :
                      v \in {u \in ValuesIn : Cardinality(PositionsOf(u)) > 1}}
       /\ Len(ret.delete_ids) = Cardinality(Range(ret.delete_ids))
       /\ \A e \in Range(ret.duplicates) : e[2][1] \notin Range(ret.delete_ids)

\* Witness of C13: an input with several values and a duplicate group of
\* three has been analyzed.
GroupsKeepFirstWitness ==
    /\ Analyzed
    /\ Len(ret.index) >= 2
    /\ \E e \in Range(ret.duplicates) : Len(e[2]) >= 3
    /\ Len(ret.delete_ids) >= 2

\* C14: the figures written to stats.txt agree with the input: the unique
\* value count is the number of distinct non-null values, the duplicate
\* group count is the number of values held by more than one document, the
\* delete-candidate count is the duplicated identifier count minus the
\* duplicate group count, and the document total is the length of the input
\* list, whether or not every document carries the field.
StatsConsistent ==
    pc = "completed" =>
       /\ ret.stats.total_keys = Cardinality(ValuesIn)
       /\ ret.stats.total_duplicates =
             Cardinality({v \in ValuesIn : Cardinality(PositionsOf(v)) > 1})
       /\ ret.stats.total_duplicated_ids =
             Cardinality({k \in 1..Len(ret.data) :
                            /\ DocGet(ret.data[k], FIELD_NAME) # None
                            /\ Cardinality(PositionsOf(
                                  DocGet(ret.data[k], FIELD_NAME))) > 1})
       /\ ret.stats.total_delete_ids =
             ret.stats.total_duplicated_ids - ret.stats.total_duplicates
       /\ ret.stats.total_documents = Len(arg.data)

\* Witness of C14: the statistics were written for an input that has a
\* duplicate group, a unique value and a document without the field.
StatsConsistentWitness ==
    /\ pc = "completed"
    /\ ret.stats.total_duplicates >= 1
    /\ ret.stats.total_keys > ret.stats.total_duplicates
    /\ \E k \in 1..Len(ret.data) : FIELD_NAME \notin DOMAIN ret.data[k]

(***************************************************************************)
(* Properties of the file-driven scripts.                                  *)
(***************************************************************************)
BlankLine(line) == line \in {"", "  "}

\* The identifier file holds a line that is neither blank nor an identifier.
BadIdFile ==
    \E k \in 1..Len(arg.lines) :
       ~BlankLine(arg.lines[k]) /\ arg.lines[k] \notin {"1", " 2 "}

\* The identifiers the non-blank lines of a well-formed file name, in order.
NamedIds ==
    LET named == SelectSeq(arg.lines, LAMBDA l : ~BlankLine(l))
    IN [k \in 1..Len(named) |-> IF named[k] = "1" THEN 1 ELSE 2]

\* C15: a script whose identifier file holds a line that is no identifier
\* aborts with no connection made, no task submitted and no report; the
\* duplicate analysis of a JSON input that is no list aborts with no output
\* file written; and the blank lines of a well-formed identifier file are
\* skipped without error, the identifiers read being those of the other
\* lines in order.
MalformedInputAborts ==
    /\ (job \in IdFileJobs /\ BadIdFile) =>
          /\ pc \in {"pending", "failed"}
          /\ reach = "unknown"
          /\ tasks = <<>>
          /\ progress = 0
          /\ ~reported
    /\ (job = "count_duplicated" /\ arg.kind # "list") =>
          /\ pc \in {"pending", "failed"}
          /\ ret.files = {}
          /\ ~reported
    /\ (job \in IdFileJobs /\ ~BadIdFile /\ pc # "pending") =>
          /\ ~malformed
          /\ cursor = NamedIds

\* Witness of C15: a script read a file with a blank line and a line that
\* is no identifier, and aborted.
MalformedInputAbortsWitness ==
    /\ job \in IdFileJobs
    /\ pc = "failed"
    /\ malformed
    /\ \E k \in 1..Len(arg.lines) : BlankLine(arg.lines[k])

(***************************************************************************)
(* Properties of update_document.                                          *)
(***************************************************************************)

\* The safety part of C16.
RetryWithinBound ==
    arg.retries >= 1 =>
       /\ ret.calls <= arg.retries
       /\ ret.calls - ret.raised <= 1
       /\ pc = "calling" => ret.calls = ret.raised
       /\ pc = "returned" =>
             /\ ret.result = "None" <=>
                   (ret.raised = arg.retries /\ ret.calls = arg.retries)
             /\ ret.result = "UpdateResult" <=> ret.calls = ret.raised + 1
             /\ ret.result \in {"None", "UpdateResult"}

\* C16: update_document with retries = r >= 1 calls update_one at most r
\* times, returns the result of the first call that does not raise (a
\* result that matched no document included, without another call),
\* returns None exactly when all r calls raised, and always returns.
RetryTerminates == []RetryWithinBound /\ <>(pc = "returned")

\* Witness of C16: update_document returned the result of a call that
\* matched no document, after an earlier call had raised.
RetryTerminatesWitness ==
    /\ job = "update_document"
    /\ pc = "returned"
    /\ ret.result = "UpdateResult"
    /\ ret.matched_count = 0
    /\ ret.raised >= 1

\* C17: no write operation a transform produces alters the identifier: the
\* document a ReplaceRoot writes carries the identifier the operation is
\* keyed by, and no UnsetFields names the identifier, for every rename
\* table, default-field set and field list.
IdentifierPreserved ==
    /\ pc \in {"renamed", "renamed_to_end", "added"} =>
          /\ ret.key = Get(arg.document, "_id")
          /\ "_id" \in Range(KeysOf(ret.newRoot))
          /\ Get(ret.newRoot, "_id") = ret.key
    /\ pc = "removed" =>
          /\ ret.key = Get(arg.document, "_id")
          /\ "_id" \notin ret.fields

(***************************************************************************)
(* C18.  Every connection a job opens is closed on every way out of its    *)
(* with block: at no moment are more connections closed than were          *)
(* entered, and once the job has ended (completed, failed on an exception  *)
(* raised inside the block, or aborted because a later constructor or the  *)
(* first store call raised) every connection entered has been closed.      *)
(* Closing does not end the exception: a job whose exception left the      *)
(* block ends in the job-level handler, which counts one error.            *)
(***************************************************************************)
RaisedInScope ==
    \/ exc
    \/ reach = "op_fails" /\ job \in CursorJobs

ConnectionsClosed ==
    /\ conns.closed <= conns.opened
    /\ Terminal => conns.closed = conns.opened
    /\ (Terminal /\ RaisedInScope) => (pc = "failed" /\ jobErrors >= 1)

\* A two-connection job whose exception left both with blocks: both are
\* closed and the job-level handler ran.
ConnectionsClosedWitness ==
    /\ pc = "failed"
    /\ exc
    /\ conns.opened = 2
    /\ conns.closed = 2
    /\ jobErrors >= 1

(***************************************************************************)
(* C19.  update_fields_from_source changes only target documents whose     *)
(* identifier the target already holds, and in them only the fields of     *)
(* FIELDS_TO_COPY: the target holds the same identifiers before and after  *)
(* (nothing is inserted), every field outside FIELDS_TO_COPY of every      *)
(* target document, and every field of a target document the source does   *)
(* not hold, is as it was, and every write sent is an update_one on the    *)
(* target for an identifier it holds, setting only fields of               *)
(* FIELDS_TO_COPY.                                                         *)
(***************************************************************************)
SameField(old, new, k) ==
    /\ (k \in DOMAIN old) = (k \in DOMAIN new)
    /\ k \in DOMAIN old => old[k] = new[k]

UpdateMatchingFrame ==
    job = "update_from_source" =>
       /\ DOMAIN db.tgt = DOMAIN db.tgt0
       /\ \A i \in DOMAIN db.tgt0 :
             \A k \in DOMAIN db.tgt0[i] \cup DOMAIN db.tgt[i] :
                (k \notin arg.fields \/ i \notin DOMAIN db.src0)
                   => SameField(db.tgt0[i], db.tgt[i], k)
       /\ \A n \in 1..Len(db.log) :
             /\ db.log[n].to = "target"
             /\ db.log[n].op = "update_one"
             /\ db.log[n].key \in DOMAIN db.tgt0
             /\ DOMAIN db.log[n].doc \subseteq arg.fields
       /\ db.src = db.src0

\* All batches done: a target document took field f from the source and
\* kept its own g, which the source document also carries, and a source
\* document the target does not hold was not inserted.
UpdateMatchingFrameWitness ==
    /\ job = "update_from_source"
    /\ ~MoreBatches
    /\ arg.fields = {"f"}
    /\ \E i \in DOMAIN db.tgt0 \cap DOMAIN db.src0 :
          /\ DOMAIN db.src0[i] = {"_id", "f", "g"}
          /\ DOMAIN db.tgt0[i] = {"_id", "f", "g"}
          /\ db.tgt[i]["f"] = db.src0[i]["f"]
          /\ db.tgt0[i]["f"] # db.src0[i]["f"]
          /\ db.tgt[i]["g"] = db.tgt0[i]["g"]
    /\ \E i \in DOMAIN db.src0 : i \notin DOMAIN db.tgt

(***************************************************************************)
(* C20.  The insert-missing jobs never overwrite or change a target        *)
(* document that already exists: every target document that carried the    *)
(* identifier of a source document when that document's batch was          *)
(* processed is still in the target exactly as it was then, and no write   *)
(* operation, on the target or on the source, was issued for that source   *)
(* document.                                                               *)
(***************************************************************************)
InsertMissingFrame ==
    job \in InsertMissingJobs =>
       \A i \in DOMAIN db.held :
          /\ i \in DOMAIN db.tgt
          /\ db.tgt[i] = db.held[i]
          /\ \A n \in 1..Len(db.log) : db.log[n].key # i

\* All batches done: a source document whose identifier the target held,
\* with other contents, was skipped, and another one was inserted.
InsertMissingFrameWitness ==
    /\ job \in InsertMissingJobs
    /\ ~MoreBatches
    /\ \E i \in DOMAIN db.held :
          /\ i \in DOMAIN db.src0
          /\ "f" \in DOMAIN db.src0[i]
          /\ "f" \in DOMAIN db.held[i]
          /\ db.src0[i]["f"] # db.held[i]["f"]
    /\ \E n \in 1..Len(db.log) :
          /\ db.log[n].op = "insert"
          /\ db.log[n].key \notin DOMAIN db.tgt0
    /\ DOMAIN db.tgt # DOMAIN db.tgt0

(***************************************************************************)
(* Properties of the identifier-list scripts, store call by store call.    *)
(***************************************************************************)

\* Every task has returned.
WalkDone == \A k \in 1..Len(ret) : ret[k].st = "returned"

(***************************************************************************)
(* C21.  In copy_field_by_ids and transfer_documents_by_ids an error on    *)
(* one identifier's find_one, insert_one, update_one or delete_one is      *)
(* caught and logged for that identifier, does not raise the batch's count *)
(* for it, and the loop goes on with the next identifier: at every moment  *)
(* a task has tried the identifiers of its batch in order up to where it   *)
(* is, an identifier is logged at most once and only after it was tried,   *)
(* the count and the logged errors together never exceed the identifiers   *)
(* the task is done with, a task that returned has tried its whole batch,  *)
(* and every task returns.                                                 *)
(***************************************************************************)
ErrorsIsolated ==
    job \in IdListJobs =>
       \A k \in 1..Len(ret) :
          LET t == ret[k]
          IN /\ Len(t.tried) <= Len(t.batch)
             /\ t.tried = SubSeq(t.batch, 1, Len(t.tried))
             /\ Len(t.errors) <= Len(t.tried)
             /\ t.count + Len(t.errors) <= t.i - 1
             /\ t.st = "returned" => t.tried = t.batch

EveryIdentifierAttempted == []ErrorsIsolated /\ <>WalkDone

\* A task that returned: the first identifier of its batch raised and was
\* logged, the second was counted.
EveryIdentifierAttemptedWitness ==
    /\ job \in IdListJobs
    /\ \E k \in 1..Len(ret) :
          /\ ret[k].st = "returned"
          /\ Len(ret[k].batch) = 2
          /\ ret[k].tried = ret[k].batch
          /\ ret[k].errors = <<ret[k].batch[1]>>
          /\ ret[k].count = 1

(***************************************************************************)
(* C22.  At every point of a run at most MAX_WORKERS batch tasks are       *)
(* executing; a task goes from queued to running to finished and never     *)
(* back, with its batch unchanged, so it is executed once; and every       *)
(* submitted task is eventually executed: from some point on every task    *)
(* ever submitted has finished.                                            *)
(***************************************************************************)
WithinPool == Cardinality(Running) <= maxWorkers

TaskStepsForward ==
    /\ Len(tasks') >= Len(tasks)
    /\ \A i \in 1..Len(tasks) :
          /\ tasks'[i].batch = tasks[i].batch
          /\ tasks[i].st = "running" => tasks'[i].st # "queued"
          /\ Finished(tasks[i]) => tasks'[i].st = tasks[i].st

PoolRunsEveryTaskOnce ==
    /\ []WithinPool
    /\ [][TaskStepsForward]_vars
    /\ <>[](pc \in {"completed", "failed"} /\ AllFinished)

\* MAX_WORKERS tasks are running and another one waits in the queue.
PoolRunsEveryTaskOnceWitness ==
    /\ maxWorkers = MaxWorkers
    /\ Cardinality(Running) = maxWorkers
    /\ \E i \in 1..Len(tasks) : tasks[i].st = "queued"

(***************************************************************************)
(* C23.  The progress total is written by the dispatching thread alone:    *)
(* every step that changes it is the dispatching thread, in its collecting *)
(* loop, taking one finished future and adding what it reads from it,      *)
(* while no task changes state; so at every moment the total is exactly    *)
(* the sum of what was added for the futures collected so far, whatever    *)
(* the interleaving of the workers.                                        *)
(***************************************************************************)
RECURSIVE CollectedTotal(_)
CollectedTotal(ts) ==
    IF ts = <<>> THEN 0
    ELSE (IF Head(ts).collected THEN Delta(job, Head(ts)) ELSE 0)
         + CollectedTotal(Tail(ts))

DispatcherCollects ==
    /\ pc = "collecting"
    /\ pc' = "collecting"
    /\ \E i \in 1..Len(tasks) :
          /\ tasks[i].st \in {"returned", "raised"}
          /\ ~tasks[i].collected
          /\ tasks' = [tasks EXCEPT ![i].collected = TRUE]
          /\ progress' = progress + Delta(job, tasks[i])

SingleWriterProgress ==
    /\ [](progress = CollectedTotal(tasks))
    /\ [][progress' # progress => DispatcherCollects]_vars

\* Two futures were collected, each adding to the total, while another
\* task is still running on a worker.
SingleWriterProgressWitness ==
    /\ progress >= 2
    /\ Cardinality({i \in 1..Len(tasks) :
                      tasks[i].collected /\ Delta(job, tasks[i]) > 0}) >= 2
    /\ \E i \in 1..Len(tasks) : tasks[i].st = "running"

(***************************************************************************)
(* C24.  A source document that carries none of the fields the transform   *)
(* copies is skipped: no write operation is issued against the target for  *)
(* it.  Here for update_fields_from_source: every operation sent to the    *)
(* target was built for a source document that carries at least one field  *)
(* of FIELDS_TO_COPY.                                                      *)
(***************************************************************************)
SkipsDocumentsWithoutFields ==
    job = "update_from_source" =>
       \A n \in 1..Len(db.log) :
          db.log[n].to = "target" =>
             DOMAIN db.src0[db.log[n].key] \cap arg.fields # {}

(***************************************************************************)
(* C25.  Every document a copy job inserts into the target carries the     *)
(* identifier of the source document it was derived from: every insert     *)
(* sent holds an "_id" equal to that of its source document, and the       *)
(* target never holds an identifier that neither it nor the source held    *)
(* at the start (the store assigned none).                                 *)
(***************************************************************************)
InsertsKeepIdentifier ==
    job \in InsertMissingJobs =>
       /\ \A n \in 1..Len(db.log) :
             db.log[n].op = "insert" =>
                /\ "_id" \in DOMAIN db.log[n].doc
                /\ db.log[n].doc["_id"] = db.log[n].key
       /\ DOMAIN db.tgt \subseteq DOMAIN db.tgt0 \cup DOMAIN db.src0

(***************************************************************************)
(* C26.  In move mode of both transfer scripts a source document is        *)
(* deleted only after the same task inserted a document with that          *)
(* identifier into the target: in every state of every interleaving of the *)
(* tasks' store calls, with inserts failing and with identifier lists that *)
(* repeat an identifier, a task has deleted only identifiers it inserted,  *)
(* and every document the source held at the start is, unchanged, in the   *)
(* source or in the target.                                                *)
(***************************************************************************)
Kept(coll, doc) ==
    /\ doc["_id"] \in DOMAIN coll
    /\ coll[doc["_id"]] = doc

MoveLosesNothing ==
    (job \in WalkJobs /\ moveMode) =>
       /\ \A k \in 1..Len(ret) : ret[k].deleted \subseteq ret[k].inserted
       /\ \A i \in DOMAIN db.src0 :
             Kept(db.src, db.src0[i]) \/ Kept(db.tgt, db.src0[i])

\* All tasks returned: one document was moved, and another, whose insert
\* failed, is still in the source.
MoveLosesNothingWitness ==
    /\ job \in WalkJobs
    /\ moveMode
    /\ WalkDone
    /\ \E i \in DOMAIN db.src0 :
          i \notin DOMAIN db.src /\ Kept(db.tgt, db.src0[i])
    /\ \E i \in DOMAIN db.src0 :
          /\ i \in DOMAIN db.src
          /\ i \notin DOMAIN db.tgt
          /\ \E n \in 1..Len(db.log) :
                db.log[n].op = "insert" /\ db.log[n].key = i

(***************************************************************************)
(* C30.  In copy mode (MOVE_MODE false) neither transfer script sends a    *)
(* delete or an update to the source collection: at every moment of every  *)
(* run, whatever the target inserts did, the source holds exactly the      *)
(* documents it held at the start and no operation on the source was sent. *)
(***************************************************************************)
TransferJobs == {"transfer_documents", "transfer_by_ids"}

ConfiguredNames(FIELDS) == {FIELDS[k][1] : k \in 1..Len(FIELDS)}

\* The configured names the document lacks, in configured order, each once.
AppendedNames(doc, FIELDS) ==
    LET first == {k \in 1..Len(FIELDS) :
                    /\ FIELDS[k][1] \notin Range(KeysOf(doc))
                    /\ \A j \in 1..(k - 1) : FIELDS[j][1] # FIELDS[k][1]}
        at == SortedSeq(first)
    IN [n \in 1..Len(at) |-> FIELDS[at[n]][1]]

\* The default a configured name ends with: the last one configured.
DefaultOf(FIELDS, name) ==
    FIELDS[CHOOSE k \in 1..Len(FIELDS) :
              /\ FIELDS[k][1] = name
              /\ \A j \in (k + 1)..Len(FIELDS) : FIELDS[j][1] # name][2]

AddFieldsMerges ==
    pc = "added" =>
       LET doc == arg.document
           FIELDS == arg.fields
           new == ret.newRoot
       IN /\ KeysOf(new) = KeysOf(doc) \o AppendedNames(doc, FIELDS)
          /\ \A k \in 1..Len(new) :
                new[k][2] = IF new[k][1] \in ConfiguredNames(FIELDS)
                            THEN DefaultOf(FIELDS, new[k][1])
                            ELSE doc[k][2]
          /\ add_fields_document(new, FIELDS).newRoot = new

\* A document with two fields and two configured fields: one the document
\* has, which took the default in place, one it lacks, which was appended;
\* the field that is not configured kept its value.
AddFieldsMergesWitness ==
    /\ pc = "added"
    /\ KeysOf(arg.document) = <<"_id", "a", "b">>
    /\ KeysOf(arg.fields) = <<"c", "a">>
    /\ ret.newRoot = <<<<"_id", "oid">>, <<"a", "default">>,
                       <<"b", Tag("b")>>, <<"c", "default">>>>

(***************************************************************************)
(* C28.  Renaming loses no data: in both rename modes the output has as    *)
(* many fields as the input, every field keeps its value under the name    *)
(* the renaming gives it (its own name when it is not renamed), and in     *)
(* move-to-end mode every renamed field comes after every field that was   *)
(* not renamed; documents that already hold a field named like a rename    *)
(* target included.                                                        *)
(***************************************************************************)
Holds(d, key, value) == \E k \in 1..Len(d) : d[k] = <<key, value>>

RenameLosesNothing ==
    pc \in {"renamed", "renamed_to_end"} =>
       LET doc == arg.document
           new == ret.newRoot
       IN /\ Len(new) = Len(doc)
          /\ \A k \in 1..Len(doc) :
                Holds(new, NewName(arg.table, doc[k][1]), doc[k][2])
          /\ pc = "renamed_to_end" =>
                \A m, n \in 1..Len(doc) :
                   (doc[m][1] \in DOMAIN arg.table /\ doc[n][1] \notin DOMAIN arg.table)
                      => \E p, q \in 1..Len(new) :
                            /\ new[p][1] = arg.table[doc[m][1]]
                            /\ new[q][1] = doc[n][1]
                            /\ q < p

(***************************************************************************)
(* C29.  A connection the batch tasks use is closed only after every       *)
(* submitted task has finished: while any task is queued or running, every *)
(* connection the script passed to the tasks is open (the only connection  *)
(* closed by then is the one mark_duplicates used to load the reference    *)
(* values, before it submitted anything), also while an exception raised   *)
(* by the collecting loop is on its way out of the executor block.         *)
(***************************************************************************)
Unfinished == {i \in 1..Len(tasks) : tasks[i].st \in {"queued", "running"}}

ClosedBeforeSubmitting(j) == IF j = "mark_duplicates" THEN 1 ELSE 0

ClosesAfterTasks ==
    Unfinished # {} =>
       /\ conns.opened = NumConns(job)
       /\ conns.closed = ClosedBeforeSubmitting(job)

\* The collecting loop raised while a task is still running: the exception
\* is leaving the executor block and both connections are still open.
ClosesAfterTasksWitness ==
    /\ exc
    /\ pc = "exiting"
    /\ \E i \in 1..Len(tasks) : tasks[i].st = "running"
    /\ conns = [opened |-> 2, closed |-> 0]

=============================================================================
